---- MODULE Spec2Model ----
(***************************************************************************)
(* Model of the path engine of py416.files (forslash, checkwindrive,       *)
(* splitpath, joinpath, getpath, parent) and of py416.general.unpack.      *)
(*                                                                         *)
(* A Python str is a sequence of characters; a character is a TLA+ string. *)
(* Two characters outside ASCII are written by their code point:           *)
(*   "U+0131"  LATIN SMALL LETTER DOTLESS I   (str.upper() gives "I")      *)
(*   "U+00DF"  LATIN SMALL LETTER SHARP S     (str.upper() gives "SS")     *)
(* A Python value is a record [k, s, items, n]: k is the type name, s the  *)
(* characters of a str, items the elements of a list/tuple, n the number   *)
(* of an int/bool.                                                         *)
(*                                                                         *)
(* Six specifications share the variables.  Spec runs the path engine on   *)
(* both platforms and never touches the file tree.  FsSpec runs the        *)
(* functions that change the file tree and the working directory on a      *)
(* POSIX file tree: dirs is the set of directories, files the set of       *)
(* files with their text, oscwd the working directory as os.getcwd()       *)
(* reports it ('' once that directory has been removed), fobj the path a   *)
(* File object tracks, and calls counts the calls made so far.  A node of  *)
(* the tree is the sequence of names from the root down.  FileSpec runs    *)
(* the methods move, rename, copy and delete of one File on such a tree.   *)
(* RaceSpec runs one call of getpath or parent step by step while another  *)
(* thread calls cd, CopySpec runs the functions copy and move, and JspSpec *)
(* runs the argument loop of the console script jsp.  frame holds the      *)
(* position and the locals of a call that runs step by step.               *)
(***************************************************************************)
EXTENDS Integers, Sequences, FiniteSets, TLC

VARIABLES osname, oscwd, op, arg, res, dirs, files, fobj, calls, frame

vars == <<osname, oscwd, op, arg, res, dirs, files, fobj, calls, frame>>

(***************************************************************************)
(* Python values                                                           *)
(***************************************************************************)
PyStr(s) == [k |-> "str", s |-> s, items |-> <<>>, n |-> 0]

PyList(xs) == [k |-> "list", s |-> <<>>, items |-> xs, n |-> 0]

PyTuple(xs) == [k |-> "tuple", s |-> <<>>, items |-> xs, n |-> 0]

PyInt(i) == [k |-> "int", s |-> <<>>, items |-> <<>>, n |-> i]

PyBool(b) == [k |-> "bool", s |-> <<>>, items |-> <<>>, n |-> IF b THEN 1 ELSE 0]

PyNone == [k |-> "NoneType", s |-> <<>>, items |-> <<>>, n |-> 0]

\* no call is under way
NoFrame == [pc |-> "idle"]

\* bool(v): the truth value Python gives to v
Truthy(v) ==
    IF v.k = "str" THEN v.s # <<>>
    ELSE IF v.k \in {"list", "tuple"} THEN v.items # <<>>
    ELSE IF v.k \in {"int", "bool"} THEN v.n # 0
    ELSE FALSE

\* the outcome of a call: the exception raised ("" for none) and the value returned
Ret(v) == [exc |-> "", val |-> v]

Raise(e) == [exc |-> e, val |-> <<>>]

(***************************************************************************)
(* str methods                                                             *)
(***************************************************************************)
\* s.replace('\\', '/')
ReplaceBackslash(s) == [i \in 1..Len(s) |-> IF s[i] = "\\" THEN "/" ELSE s[i]]

\* s.startswith(pre)
StartsWith(s, pre) == Len(s) >= Len(pre) /\ SubSeq(s, 1, Len(pre)) = pre

\* s.find(ch, start) with 1-based positions; 0 when ch does not occur at or after from
Find(s, ch, from) ==
    LET hits == {i \in from..Len(s) : s[i] = ch}
    IN  IF hits = {} THEN 0 ELSE CHOOSE i \in hits : \A j \in hits : i <= j

\* s.rfind(c) for c in seps, 1-based; 0 when no character of seps occurs
RFind(s, seps) ==
    LET hits == {i \in 1..Len(s) : s[i] \in seps}
    IN  IF hits = {} THEN 0 ELSE CHOOSE i \in hits : \A j \in hits : i >= j

\* s.split('/')
RECURSIVE StrSplit(_)
StrSplit(s) ==
    LET i == Find(s, "/", 1)
    IN  IF i = 0 THEN <<s>>
        ELSE <<SubSeq(s, 1, i - 1)>> \o StrSplit(SubSeq(s, i + 1, Len(s)))

\* '/'.join(parts)
RECURSIVE StrJoin(_)
StrJoin(parts) ==
    IF Len(parts) = 0 THEN <<>>
    ELSE IF Len(parts) = 1 THEN parts[1]
    ELSE parts[1] \o <<"/">> \o StrJoin(Tail(parts))

\* s.lstrip(c) for c in seps
LStrip(s, seps) ==
    LET keep == {i \in 1..Len(s) : s[i] \notin seps}
    IN  IF keep = {} THEN <<>>
        ELSE SubSeq(s, CHOOSE i \in keep : \A j \in keep : i <= j, Len(s))

\* s.rstrip(c) for c in seps
RStrip(s, seps) ==
    LET keep == {i \in 1..Len(s) : s[i] \notin seps}
    IN  IF keep = {} THEN <<>>
        ELSE SubSeq(s, 1, CHOOSE i \in keep : \A j \in keep : i >= j)

\* c.upper() for one character: a str, since the upper case of a character may be longer
UpperChar(c) ==
    CASE c = "c" -> <<"C">>
      [] c = "d" -> <<"D">>
      [] c = "U+0131" -> <<"I">>
      [] c = "U+00DF" -> <<"S", "S">>
      [] OTHER -> <<c>>

\* s.upper()
RECURSIVE Upper(_)
Upper(s) == IF s = <<>> THEN <<>> ELSE UpperChar(Head(s)) \o Upper(Tail(s))

\* s == '.' * len(s)
AllDots(s) == \A i \in 1..Len(s) : s[i] = "."

\* the concatenation of a sequence of sequences
RECURSIVE Flatten(_)
Flatten(seqs) == IF seqs = <<>> THEN <<>> ELSE Head(seqs) \o Flatten(Tail(seqs))

(***************************************************************************)
(* os.path.dirname of the two platforms (CPython 3.11)                     *)
(***************************************************************************)
\* posixpath.dirname, from head = p[:i] on
PosixHead(head) ==
    IF head # <<>> /\ \E j \in 1..Len(head) : head[j] # "/"
    THEN RStrip(head, {"/"})
    ELSE head

\* posixpath.dirname
PosixDirname(p) == PosixHead(SubSeq(p, 1, RFind(p, {"/"})))

\* ntpath.splitdrive of a UNC path, from the first separator after the host on
NtSplitUnc(p, normp, index) ==
    IF index = 0 \/ Find(normp, "\\", index + 1) = 0 THEN <<p, <<>>>>
    ELSE <<SubSeq(p, 1, Find(normp, "\\", index + 1) - 1),
           SubSeq(p, Find(normp, "\\", index + 1), Len(p))>>

\* ntpath.splitdrive, after normp = p.replace(altsep, sep)
NtSplitNorm(p, normp) ==
    IF SubSeq(normp, 1, 2) = <<"\\", "\\">>
    THEN NtSplitUnc(p, normp,
            Find(normp, "\\",
                 IF Upper(SubSeq(normp, 1, IF Len(p) < 8 THEN Len(p) ELSE 8))
                        = <<"\\", "\\", "?", "\\", "U", "N", "C", "\\">>
                 THEN 9 ELSE 3))
    ELSE IF normp[2] = ":" THEN <<SubSeq(p, 1, 2), SubSeq(p, 3, Len(p))>>
    ELSE <<<<>>, p>>

\* ntpath.splitdrive: <<drive, rest>>
NtSplitdrive(p) ==
    IF Len(p) >= 2
    THEN NtSplitNorm(p, [i \in 1..Len(p) |-> IF p[i] = "/" THEN "\\" ELSE p[i]])
    ELSE <<<<>>, p>>

\* ntpath.split(p)[0], from head = p[:i] on
NtHead(d, head) ==
    d \o (IF RStrip(head, {"\\", "/"}) # <<>> THEN RStrip(head, {"\\", "/"}) ELSE head)

\* ntpath.split(p)[0], after d, p = splitdrive(p)
NtSplitHead(dp) == NtHead(dp[1], SubSeq(dp[2], 1, RFind(dp[2], {"\\", "/"})))

\* ntpath.dirname, that is ntpath.split(p)[0]
NtDirname(p) == NtSplitHead(NtSplitdrive(p))

\* os.path.dirname of the running platform
Dirname(p, os) == IF os.name = "nt" THEN NtDirname(p) ELSE PosixDirname(p)

(***************************************************************************)
(* py416.files: the path engine.  os is the record [name, cwd] of the      *)
(* platform (os.name) and of the process's working directory as            *)
(* os.getcwd() reports it.  Where a function assigns a local more than     *)
(* once, the rest of the function is an operator of its own that takes     *)
(* the locals assigned so far.                                             *)
(***************************************************************************)
\* forslash on a str
forslashStr(path) == ReplaceBackslash(path)

\* forslash
forslash(path) ==
    IF path.k # "str" THEN Raise("TypeError") ELSE Ret(forslashStr(path.s))

\* getcwd returning os.getcwd() as it is
getcwd_noForslash(os) == os.cwd

\* getcwd
getcwd(os) == forslashStr(os.cwd)

\* the characters of 'ABCDEFGHIJKLMNOPQRSTUVWXYZ'
UpperLetters ==
    {"A", "B", "C", "D", "E", "F", "G", "H", "I", "J", "K", "L", "M",
     "N", "O", "P", "Q", "R", "S", "T", "U", "V", "W", "X", "Y", "Z"}

\* checkwindrive, after drive := forslash(drive).upper()
checkwindriveUpper(drive) ==
    IF Len(drive) \notin {2, 3} THEN <<>>
    ELSE IF drive[1] \notin UpperLetters \/ drive[2] # ":" THEN <<>>
    ELSE IF Len(drive) = 3
    THEN (IF drive[3] # "/" THEN <<>> ELSE drive)
    ELSE drive \o <<"/">>

\* checkwindrive on a str
checkwindriveStr(drive) == checkwindriveUpper(Upper(forslashStr(drive)))

\* checkwindrive
checkwindrive(drive) ==
    IF drive.k # "str" THEN Raise("TypeError") ELSE Ret(checkwindriveStr(drive.s))

\* splitpath: parts after the Unix root and the Windows drive root have replaced parts[0]
splitpathRoot(parts) ==
    LET root == IF parts[1] = <<>> THEN <<"/">> ELSE parts[1]
    IN  [parts EXCEPT ![1] = IF checkwindriveStr(root) # <<>> THEN checkwindriveStr(root)
                             ELSE root]

\* splitpath: the tuple returned for the rewritten path and its parts
splitpathResult(path, parts) ==
    IF StartsWith(path, <<"/", "/">>)
    THEN (IF Len(parts) > 2
          THEN <<<<"/", "/">> \o parts[3]>> \o SubSeq(parts, 4, Len(parts))
          ELSE <<<<"/", "/">> \o parts[3]>>)
    ELSE IF Len(parts) = 2 /\ parts[2] = <<>> THEN <<parts[1]>>
    ELSE parts

\* splitpath, from the re-split of the rewritten path to the end
splitpathParts(path) == splitpathResult(path, splitpathRoot(StrSplit(path)))

\* splitpath: the chain of tests on the dots reaches the return of ('',)
splitpathCancels(path, parts) ==
    IF path = <<".">> THEN FALSE
    ELSE IF path = <<".", ".">> THEN FALSE
    ELSE IF AllDots(path) THEN FALSE
    ELSE IF parts[Len(parts)] = <<".">> THEN FALSE
    ELSE parts[Len(parts)] = <<".", ".">> /\ Len(parts) = 2

\* splitpath: the parent of a path that ends in '..', with the UNC prefix kept
splitpathUp(path, os) ==
    IF StartsWith(path, <<"/", "/">>)
    THEN <<"/", "/">> \o Dirname(Dirname(LStrip(path, {"/"}), os), os)
    ELSE Dirname(Dirname(path, os), os)

\* splitpath: the path as the chain of tests on the dots rewrites it
splitpathDots(path, parts, os) ==
    IF path = <<".">> THEN getcwd(os)
    ELSE IF path = <<".", ".">> THEN forslashStr(Dirname(getcwd(os), os))
    ELSE IF AllDots(path) THEN getcwd(os)
    ELSE IF parts[Len(parts)] = <<".">> THEN SubSeq(path, 1, Len(path) - 2)
    ELSE IF parts[Len(parts)] = <<".", ".">> THEN splitpathUp(path, os)
    ELSE path

\* splitpath on a non-empty str, after forslash
splitpathRewrite(path, os) ==
    IF path \in {<<"/">>, <<"/", ".">>, <<"/", ".", ".">>} THEN <<<<"/">>>>
    ELSE IF splitpathCancels(path, StrSplit(path)) THEN <<<<>>>>
    ELSE splitpathParts(splitpathDots(path, StrSplit(path), os))

\* splitpath on a str
splitpathStr(path, os) ==
    IF path = <<>> THEN <<<<>>>> ELSE splitpathRewrite(forslashStr(path), os)

\* splitpath returning the empty tuple instead of ('',) for a falsy path
splitpath_emptyTuple(path, os) ==
    IF ~Truthy(path) THEN Ret(<<>>)
    ELSE IF path.k # "str" THEN Raise("TypeError")
    ELSE Ret(splitpathStr(path.s, os))

\* splitpath
splitpath(path, os) ==
    IF ~Truthy(path) THEN Ret(<<<<>>>>)
    ELSE IF path.k # "str" THEN Raise("TypeError")
    ELSE Ret(splitpathStr(path.s, os))

(***************************************************************************)
(* py416.general.unpack                                                    *)
(***************************************************************************)
RECURSIVE unpackItems(_)
\* the loop of unpack over the items of a list or tuple
unpackItems(items) ==
    IF items = <<>> THEN <<>>
    ELSE (IF Head(items).k \notin {"list", "tuple"} THEN <<Head(items)>>
          ELSE unpackItems(Head(items).items))
         \o unpackItems(Tail(items))

\* unpack: the tuple of the retrieved items
unpack(iterable) ==
    IF iterable.k \notin {"list", "tuple"} THEN <<iterable>> ELSE unpackItems(iterable.items)

(***************************************************************************)
(* joinpath, getpath, parent                                               *)
(***************************************************************************)
\* parts with every '' removed
RemoveEmpty(parts) == SelectSeq(parts, LAMBDA x : x # <<>>)

\* joinpath, after the '' elements have been removed
joinNonEmpty(parts) ==
    IF Len(parts) = 0 THEN <<>>
    ELSE IF parts = <<<<"/">>>> THEN <<"/">>
    ELSE IF parts[1] = <<"/">> THEN <<"/">> \o StrJoin(Tail(parts))
    ELSE IF StartsWith(parts[1], <<"/", "/">>) THEN StrJoin(parts)
    ELSE IF checkwindriveStr(parts[1]) # <<>>
    THEN (IF Len(parts) = 1 THEN checkwindriveStr(parts[1])
          ELSE checkwindriveStr(parts[1]) \o StrJoin(Tail(parts)))
    ELSE StrJoin(parts)

\* joinpath, after the elements have been split and flattened
joinParts(parts) ==
    IF parts = <<<<"/">>, <<"/">>>> THEN <<"/">> ELSE joinNonEmpty(RemoveEmpty(parts))

\* joinpath on a flat sequence of str
joinpathStr(parts, os) ==
    joinParts(Flatten([i \in 1..Len(parts) |-> splitpathStr(parts[i], os)]))

\* joinpath, after every leaf has been handed to splitpath
joinpathSplits(splits) ==
    IF \E i \in 1..Len(splits) : splits[i].exc # ""
    THEN Raise("TypeError")
    ELSE Ret(joinParts(Flatten([i \in 1..Len(splits) |-> splits[i].val])))

\* joinpath(*parts): parts is the tuple of the arguments
joinpath(parts, os) ==
    joinpathSplits([i \in 1..Len(unpack(parts)) |-> splitpath(unpack(parts)[i], os)])

\* getpath without the branch of the Windows root
getpathJoined_noWindowsRoot(parts, path, os) ==
    IF StartsWith(parts[1], <<"/", "/">>) \/ parts[1] = <<"/">> THEN path
    ELSE getcwd(os) \o <<"/">> \o path

\* getpath, after path = joinpath(parts)
getpathJoined(parts, path, os) ==
    IF StartsWith(parts[1], <<"/", "/">>) \/ parts[1] = <<"/">> THEN path
    ELSE IF checkwindriveStr(parts[1]) # <<>>
    THEN joinpathStr([parts EXCEPT ![1] = checkwindriveStr(parts[1])], os)
    ELSE getcwd(os) \o <<"/">> \o path

\* getpath without the special case of the cancelled path
getpathParts_noSpecialCase(parts, os) == getpathJoined(parts, joinpathStr(parts, os), os)

\* getpath, after splitpath has returned parts
getpathParts(parts, os) ==
    IF parts = <<<<>>>> THEN <<>> ELSE getpathJoined(parts, joinpathStr(parts, os), os)

\* getpath on a str
getpathStr(path, os) == getpathParts(splitpathStr(path, os), os)

\* getpath, given the outcome of splitpath
getpathOutcome(parts, os) ==
    IF parts.exc # "" THEN parts ELSE Ret(getpathParts(parts.val, os))

\* getpath
getpath(path, os) == getpathOutcome(splitpath(path, os), os)

\* parent without the test for a root
parentResolved_noRootTest(path, os) ==
    IF path = <<>> THEN <<>> ELSE getpathStr(path \o <<"/", ".", ".">>, os)

\* parent, after getpath has returned path
parentResolved(path, os) ==
    IF path = <<>> THEN <<>>
    ELSE IF \/ path = <<"/">>
            \/ checkwindriveStr(path) # <<>>
            \/ StartsWith(path, <<"/", "/">>) /\ Len(splitpathStr(path, os)) = 1
    THEN path
    ELSE getpathStr(path \o <<"/", ".", ".">>, os)

\* parent on a str
parentStr(path, os) == parentResolved(getpathStr(path, os), os)

\* parent, given the outcome of getpath
parentOutcome(resolved, os) ==
    IF resolved.exc # "" THEN resolved ELSE Ret(parentResolved(resolved.val, os))

\* parent
parent(path, os) == parentOutcome(getpath(path, os), os)

(***************************************************************************)
(* class File: the properties that only read the path                      *)
(***************************************************************************)
\* File.__init__: the path the new File tracks
FileInit(path, os) == getpath(path, os)

\* str(File.parent): the path tracked by File(parent(self.path))
FileParent(selfpath, os) == getpathStr(parentStr(selfpath, os), os)

\* File.isroot on a File that tracks selfpath
FileIsroot(selfpath, os) == selfpath = FileParent(selfpath, os)

\* File(path).isroot, given the outcome of File.__init__
FileIsrootOutcome(made, os) ==
    IF made.exc # "" THEN made ELSE Ret(PyBool(FileIsroot(made.val, os)))

(***************************************************************************)
(* The operating system under the file functions: a POSIX file tree.       *)
(* fs is the record [dirs, files, cwd]; a file is a record [node, text].   *)
(* The strings py416 hands to the operating system come from getpath and   *)
(* joinpath, so their components are names or empty.                       *)
(***************************************************************************)
\* the outcome of a call that may change the file tree
Done(v, fs) == [exc |-> "", val |-> v, fs |-> fs]

Fail(e, fs) == [exc |-> e, val |-> <<>>, fs |-> fs]

\* a is b or an ancestor of b
IsPrefix(a, b) == Len(a) <= Len(b) /\ SubSeq(b, 1, Len(a)) = a

\* the elements of a finite set in some order
RECURSIVE SeqOf(_)
SeqOf(S) ==
    IF S = {} THEN <<>>
    ELSE LET x == CHOOSE y \in S : TRUE
         IN  <<x>> \o SeqOf(S \ {x})

\* the nodes that are files
FileNodes(fs) == {f.node : f \in fs.files}

\* the path names something the kernel can look up: not '', and when relative the
\* working directory still exists
OsValid(fs, p) == p # <<>> /\ (StartsWith(p, <<"/">>) \/ fs.cwd # <<>>)

\* the node a path names: repeated slashes count once, a relative path starts at cwd
OsNode(fs, p) ==
    IF StartsWith(p, <<"/">>) THEN RemoveEmpty(StrSplit(p))
    ELSE RemoveEmpty(StrSplit(fs.cwd)) \o RemoveEmpty(StrSplit(p))

\* the path os.getcwd() reports for a node
OsPath(node) == <<"/">> \o StrJoin(node)

\* os.path.isdir, os.path.isfile, os.path.exists
OsIsdir(fs, p) == OsValid(fs, p) /\ OsNode(fs, p) \in fs.dirs

OsIsfile(fs, p) == OsValid(fs, p) /\ OsNode(fs, p) \in FileNodes(fs)

OsExists(fs, p) == OsIsdir(fs, p) \/ OsIsfile(fs, p)

\* some ancestor of the node is a file
UnderFile(fs, node) == \E i \in 0..(Len(node) - 1) : SubSeq(node, 1, i) \in FileNodes(fs)

\* the parent directory of the node exists
ParentIsDir(fs, node) == node # <<>> /\ SubSeq(node, 1, Len(node) - 1) \in fs.dirs

\* the nodes directly inside a directory
Children(fs, node) ==
    {n \in fs.dirs \cup FileNodes(fs) : Len(n) = Len(node) + 1 /\ IsPrefix(node, n)}

\* the working directory is the node or lies beneath it
CwdWithin(fs, node) == fs.cwd # <<>> /\ IsPrefix(node, RemoveEmpty(StrSplit(fs.cwd)))

\* the text of the file at a node
TextAt(fs, node) == (CHOOSE f \in fs.files : f.node = node).text

\* the tree without the node and everything beneath it; the working directory is gone
\* when it was in there
Without(fs, node) ==
    [dirs |-> {n \in fs.dirs : ~IsPrefix(node, n)},
     files |-> {f \in fs.files : ~IsPrefix(node, f.node)},
     cwd |-> IF CwdWithin(fs, node) THEN <<>> ELSE fs.cwd]

\* os.makedirs: the tree afterwards, the tree unchanged when it raises
OsMakedirs(fs, p) ==
    IF ~OsValid(fs, p) \/ OsExists(fs, p) \/ UnderFile(fs, OsNode(fs, p)) THEN fs
    ELSE [fs EXCEPT !.dirs = @ \cup {SubSeq(OsNode(fs, p), 1, i) : i \in 0..Len(OsNode(fs, p))}]

\* os.chdir
OsChdir(fs, p) ==
    IF ~OsValid(fs, p) THEN Fail("FileNotFoundError", fs)
    ELSE IF OsIsdir(fs, p) THEN Done(PyNone, [fs EXCEPT !.cwd = OsPath(OsNode(fs, p))])
    ELSE IF OsIsfile(fs, p) \/ UnderFile(fs, OsNode(fs, p)) THEN Fail("NotADirectoryError", fs)
    ELSE Fail("FileNotFoundError", fs)

\* os.rmdir: the root and a directory that is not empty cannot be removed
OsRmdir(fs, p) ==
    IF OsIsfile(fs, p) THEN Fail("NotADirectoryError", fs)
    ELSE IF ~OsIsdir(fs, p) THEN Fail("FileNotFoundError", fs)
    ELSE IF OsNode(fs, p) = <<>> \/ Children(fs, OsNode(fs, p)) # {} THEN Fail("OSError", fs)
    ELSE Done(PyNone, Without(fs, OsNode(fs, p)))

\* os.remove
OsRemove(fs, p) ==
    IF OsIsdir(fs, p) THEN Fail("IsADirectoryError", fs)
    ELSE IF ~OsIsfile(fs, p) THEN Fail("FileNotFoundError", fs)
    ELSE Done(PyNone, Without(fs, OsNode(fs, p)))

\* shutil.rmtree of a directory: everything beneath the root goes, the root itself stays
\* and makes the call raise
Rmtree(fs, p) ==
    IF OsNode(fs, p) = <<>>
    THEN Fail("OSError", [dirs |-> {<<>>}, files |-> {},
                          cwd |-> IF fs.cwd = <<"/">> THEN fs.cwd ELSE <<>>])
    ELSE Done(PyNone, Without(fs, OsNode(fs, p)))

\* open(path, 'a') and file.write(msg): the text goes after the text the file has
OsAppend(fs, p, msg) ==
    IF ~OsValid(fs, p) THEN Fail("FileNotFoundError", fs)
    ELSE IF OsIsdir(fs, p) THEN Fail("IsADirectoryError", fs)
    ELSE IF OsIsfile(fs, p)
    THEN Done(PyNone, [fs EXCEPT !.files = {IF f.node = OsNode(fs, p)
                                            THEN [f EXCEPT !.text = @ \o msg] ELSE f : f \in @}])
    ELSE IF UnderFile(fs, OsNode(fs, p)) THEN Fail("NotADirectoryError", fs)
    ELSE IF ~ParentIsDir(fs, OsNode(fs, p)) THEN Fail("FileNotFoundError", fs)
    ELSE Done(PyNone, [fs EXCEPT !.files = @ \cup {[node |-> OsNode(fs, p), text |-> msg]}])

(***************************************************************************)
(* py416.files: the functions that read and change the file tree.  Each    *)
(* takes the file tree and returns the outcome with the tree afterwards.   *)
(***************************************************************************)
\* a directory no path can name, standing for a working directory that is gone:
\* os.getcwd() then raises FileNotFoundError
NoCwd == <<"/", "!", "/", "!">>

\* the os module as the path engine sees it
PathOs(fs) == [name |-> "posix", cwd |-> IF fs.cwd = <<>> THEN NoCwd ELSE fs.cwd]

\* a str made by the path engine: the call raised when it asked for the working
\* directory that is gone
Engine(s, fs) ==
    IF \E i \in 1..Len(s) : s[i] = "!" THEN Fail("FileNotFoundError", fs) ELSE Done(s, fs)

\* getpath on a str, under the file tree
getpathFs(path, fs) == Engine(getpathStr(path, PathOs(fs)), fs)

\* parent on a str, under the file tree
parentFs(path, fs) == Engine(parentStr(path, PathOs(fs)), fs)

\* listdir(path) with its default arguments, path being resolved
listdir(path, fs) ==
    IF ~OsIsdir(fs, path) THEN <<>>
    ELSE [i \in 1..Cardinality(Children(fs, OsNode(fs, path))) |->
            joinpathStr(<<path, SeqOf(Children(fs, OsNode(fs, path)))[i]
                                    [Len(OsNode(fs, path)) + 1]>>, PathOs(fs))]

\* makedirs(dir) with ignore_errors true, dir being resolved: what os.makedirs raises
\* is swallowed
makedirs(dir, fs) == IF OsExists(fs, dir) THEN fs ELSE OsMakedirs(fs, dir)

\* cd, after makedirs(path := getpath(path))
cdChdir(path, moved) == IF moved.exc # "" THEN moved ELSE Done(path, moved.fs)

\* cd, after getpath
cdResolved(got, fs) ==
    IF got.exc # "" THEN got
    ELSE cdChdir(got.val, OsChdir(makedirs(got.val, fs), got.val))

\* cd
cd(path, fs) == cdResolved(getpathFs(path, fs), fs)

RECURSIVE rmdir(_, _, _), rmdirResolved(_, _, _), rmdirItems(_, _, _), rmdirNext(_, _, _)

\* rmdir: the last statements, after cd() when the folder is the working directory
rmdirSelf(path, count, moved) ==
    IF moved.exc # "" THEN moved
    ELSE IF OsRmdir(moved.fs, path).exc # "" THEN OsRmdir(moved.fs, path)
    ELSE Done(count + 1, OsRmdir(moved.fs, path).fs)

\* rmdir, after the loop over the items
rmdirRoot(path, delroot, looped) ==
    IF looped.exc # "" THEN looped
    ELSE IF listdir(path, looped.fs) # <<>> \/ ~delroot THEN looped
    ELSE IF looped.fs.cwd = <<>> THEN Fail("FileNotFoundError", looped.fs)
    ELSE IF path = getcwd(PathOs(looped.fs))
    THEN rmdirSelf(path, looped.val, cd(<<".", ".">>, looped.fs))
    ELSE rmdirSelf(path, looped.val, Done(<<>>, looped.fs))

\* rmdir: the loop goes on after rmdir(item) has returned
rmdirNext(items, count, sub) ==
    IF sub.exc # "" THEN sub ELSE rmdirItems(items, count + sub.val, sub.fs)

\* rmdir: the loop over the items that listdir returned
rmdirItems(items, count, fs) ==
    IF items = <<>> THEN Done(count, fs)
    ELSE IF ~OsIsdir(fs, Head(items)) THEN rmdirItems(Tail(items), count, fs)
    ELSE rmdirNext(Tail(items), count, rmdir(Head(items), TRUE, fs))

\* rmdir, after getpath
rmdirResolved(got, delroot, fs) ==
    IF got.exc # "" THEN got
    ELSE IF ~OsExists(fs, got.val) THEN Fail("FileNotFoundError", fs)
    ELSE IF ~OsIsdir(fs, got.val) THEN Fail("ValueError", fs)
    ELSE rmdirRoot(got.val, delroot, rmdirItems(listdir(got.val, fs), 0, fs))

\* rmdir
rmdir(path, delroot, fs) == rmdirResolved(getpathFs(path, fs), delroot, fs)

\* delete with trash false: the value of rmdir is dropped
deleteFolder(removed) == IF removed.exc # "" THEN removed ELSE Done(PyNone, removed.fs)

\* delete calling shutil.rmtree whatever force is
deleteResolved_alwaysRmtree(got, force, fs) ==
    IF got.exc # "" THEN got
    ELSE IF ~OsExists(fs, got.val) THEN Done(PyNone, fs)
    ELSE IF OsIsdir(fs, got.val) THEN Rmtree(fs, got.val)
    ELSE OsRemove(fs, got.val)

\* delete with trash false, after getpath
deleteResolved(got, force, fs) ==
    IF got.exc # "" THEN got
    ELSE IF ~OsExists(fs, got.val) THEN Done(PyNone, fs)
    ELSE IF OsIsdir(fs, got.val)
    THEN (IF force THEN Rmtree(fs, got.val) ELSE deleteFolder(rmdir(got.val, TRUE, fs)))
    ELSE OsRemove(fs, got.val)

\* delete with trash false
delete(path, force, fs) == deleteResolved(getpathFs(path, fs), force, fs)

\* makefile: open(path, 'a'), write and return
makefileWrite(path, written) == IF written.exc # "" THEN written ELSE Done(path, written.fs)

\* makefile, after makedirs(parent(path))
makefileOpen(path, msg, up, fs) ==
    IF up.exc # "" THEN up
    ELSE makefileWrite(path, OsAppend(makedirs(up.val, fs), path, msg))

\* makefile, after the delete of an existing path that is to be overwritten
makefileCleared(path, msg, cleared) ==
    IF cleared.exc # "" THEN cleared
    ELSE IF OsIsfile(cleared.fs, path) THEN Fail("FileExistsError", cleared.fs)
    ELSE IF OsIsdir(cleared.fs, path) THEN Fail("IsADirectoryError", cleared.fs)
    ELSE makefileOpen(path, msg, parentFs(path, cleared.fs), cleared.fs)

\* makefile with a str msg, after getpath
makefileResolved(got, msg, overwrite, fs) ==
    IF got.exc # "" THEN got
    ELSE makefileCleared(got.val, msg,
            IF OsExists(fs, got.val) /\ overwrite THEN delete(got.val, TRUE, fs)
            ELSE Done(PyNone, fs))

\* makefile with a str msg
makefile(path, msg, overwrite, fs) == makefileResolved(getpathFs(path, fs), msg, overwrite, fs)

(***************************************************************************)
(* os.rename and shutil under copy, move and rename                        *)
(***************************************************************************)
\* the outcome with the value v when the call has returned
Valued(out, v) == IF out.exc # "" THEN out ELSE [out EXCEPT !.val = v]

\* the node n of the subtree at s, carried to the subtree at d
Rebase(n, s, d) == d \o SubSeq(n, Len(s) + 1, Len(n))

\* the tree after the entry at s has become the entry at d, which it replaces; the
\* working directory follows the entry and is gone with an entry that is replaced
Renamed(fs, s, d) ==
    [dirs |-> {n \in fs.dirs : ~IsPrefix(s, n) /\ n # d}
                \cup {Rebase(n, s, d) : n \in {m \in fs.dirs : IsPrefix(s, m)}},
     files |-> {f \in fs.files : ~IsPrefix(s, f.node) /\ f.node # d}
                \cup {[f EXCEPT !.node = Rebase(@, s, d)] :
                        f \in {g \in fs.files : IsPrefix(s, g.node)}},
     cwd |-> IF CwdWithin(fs, s) THEN OsPath(Rebase(RemoveEmpty(StrSplit(fs.cwd)), s, d))
             ELSE IF CwdWithin(fs, d) THEN <<>>
             ELSE fs.cwd]

\* os.rename of the existing entry at node s to the node d, in the order in which the
\* system call tests: the folders leading to d, the root, a '/' at the end of dst, the two
\* entries being one, one entry lying inside the other, and the kinds of the entries
OsRenameNodes(fs, s, d, slash) ==
    IF UnderFile(fs, d) THEN Fail("NotADirectoryError", fs)
    ELSE IF d # <<>> /\ ~ParentIsDir(fs, d) THEN Fail("FileNotFoundError", fs)
    ELSE IF s = <<>> \/ d = <<>> THEN Fail("OSError", fs)
    ELSE IF s \notin fs.dirs /\ slash THEN Fail("NotADirectoryError", fs)
    ELSE IF s = d THEN Done(PyNone, fs)
    ELSE IF IsPrefix(s, d) \/ IsPrefix(d, s) THEN Fail("OSError", fs)
    ELSE IF s \in fs.dirs /\ d \in FileNodes(fs) THEN Fail("NotADirectoryError", fs)
    ELSE IF s \notin fs.dirs /\ d \in fs.dirs THEN Fail("IsADirectoryError", fs)
    ELSE IF d \in fs.dirs /\ Children(fs, d) # {} THEN Fail("OSError", fs)
    ELSE Done(PyNone, Renamed(fs, s, d))

\* os.rename
OsRename(fs, src, dst) ==
    IF ~OsExists(fs, src) \/ ~OsValid(fs, dst) THEN Fail("FileNotFoundError", fs)
    ELSE OsRenameNodes(fs, OsNode(fs, src), OsNode(fs, dst), dst[Len(dst)] = "/")

\* os.path.basename of a resolved path
Basename(p) == SubSeq(p, RFind(p, {"/"}) + 1, Len(p))

\* os.path.join(dst, name)
OsJoin(dst, name) ==
    IF dst = <<>> \/ dst[Len(dst)] = "/" THEN dst \o name ELSE dst \o <<"/">> \o name

\* shutil.copyfile of the file at node s to the node d
CopyFileNodes(fs, s, d) ==
    IF s \notin FileNodes(fs) THEN Fail("FileNotFoundError", fs)
    ELSE IF s = d THEN Fail("SameFileError", fs)
    ELSE IF d \in fs.dirs THEN Fail("IsADirectoryError", fs)
    ELSE IF UnderFile(fs, d) THEN Fail("NotADirectoryError", fs)
    ELSE IF ~ParentIsDir(fs, d) THEN Fail("FileNotFoundError", fs)
    ELSE Done(PyNone, [fs EXCEPT !.files = {f \in @ : f.node # d}
                                            \cup {[node |-> d, text |-> TextAt(fs, s)]}])

\* shutil.copy2 of a file: into the folder when dst is a folder; the value is the
\* destination
Copy2(fs, src, dst) ==
    IF ~OsValid(fs, dst) THEN Fail("FileNotFoundError", fs)
    ELSE IF OsIsdir(fs, dst)
    THEN Valued(CopyFileNodes(fs, OsNode(fs, src), OsNode(fs, dst) \o <<Basename(src)>>),
                OsJoin(dst, Basename(src)))
    ELSE Valued(CopyFileNodes(fs, OsNode(fs, src), OsNode(fs, dst)), dst)

RECURSIVE CopyTreeNodes(_, _, _, _), CopyEntries(_, _, _, _, _, _)

\* the loop of shutil.copytree over the entries listed at its start: what a copy raises
\* is kept and the loop goes on
CopyEntries(fs, entries, s, d, existok, failed) ==
    IF entries = <<>> THEN [fs |-> fs, failed |-> failed]
    ELSE LET name == Head(entries)[Len(s) + 1]
             one  == IF Head(entries) \in fs.dirs
                     THEN CopyTreeNodes(fs, s \o <<name>>, d \o <<name>>, existok)
                     ELSE IF (d \o <<name>>) \in fs.dirs
                     THEN CopyFileNodes(fs, s \o <<name>>, d \o <<name, name>>)
                     ELSE CopyFileNodes(fs, s \o <<name>>, d \o <<name>>)
         IN  CopyEntries(one.fs, Tail(entries), s, d, existok, failed \/ one.exc # "")

\* shutil.copytree of the folder at node s to the node d: os.makedirs(dst), then the
\* entries, then Error when a copy has raised
CopyTreeNodes(fs, s, d, existok) ==
    IF d \in FileNodes(fs) \/ (d \in fs.dirs /\ ~existok) THEN Fail("FileExistsError", fs)
    ELSE IF UnderFile(fs, d) THEN Fail("NotADirectoryError", fs)
    ELSE LET made == [fs EXCEPT !.dirs = @ \cup {SubSeq(d, 1, i) : i \in 0..Len(d)}]
             copied == CopyEntries(made, SeqOf(Children(fs, s)), s, d, existok, FALSE)
         IN  IF copied.failed THEN Fail("Error", copied.fs) ELSE Done(PyNone, copied.fs)

\* shutil.copytree; the value is dst
CopyTree(fs, src, dst, existok) ==
    IF ~OsValid(fs, dst) THEN Fail("FileNotFoundError", fs)
    ELSE Valued(CopyTreeNodes(fs, OsNode(fs, src), OsNode(fs, dst), existok), dst)

\* shutil.copytree would copy the folder into itself, level after level, until the
\* path is too long for the file system
CopiesIntoItself(fs, src, dst) ==
    /\ OsIsdir(fs, src)
    /\ OsValid(fs, dst)
    /\ IsPrefix(OsNode(fs, src), OsNode(fs, dst))
    /\ OsNode(fs, src) # OsNode(fs, dst)

\* os.path.abspath of a resolved path: slashes run together, two leading slashes kept
Abspath(fs, p) ==
    IF p = <<>> THEN fs.cwd
    ELSE (IF StartsWith(p, <<"/", "/">>) /\ ~StartsWith(p, <<"/", "/", "/">>)
          THEN <<"/", "/">> ELSE <<"/">>) \o StrJoin(OsNode(fs, p))

\* a path with one '/' at its end
SlashEnded(p) == IF p # <<>> /\ p[Len(p)] = "/" THEN p ELSE p \o <<"/">>

\* shutil._destinsrc: dst lies in src, judged by the strings
DestInSrc(fs, src, dst) ==
    StartsWith(SlashEnded(Abspath(fs, dst)), SlashEnded(Abspath(fs, src)))

\* shutil.move: the copy and removal after os.rename has raised
ShMoveCopied(fs, src, real, copied) ==
    IF copied.exc # "" THEN copied
    ELSE IF OsIsdir(fs, src) THEN Valued(Rmtree(copied.fs, src), real)
    ELSE Valued(OsRemove(copied.fs, src), real)

\* shutil.move, from os.rename(src, real_dst) on
ShMoveRename(fs, src, dst, real, renamed) ==
    IF renamed.exc = "" THEN Valued(renamed, real)
    ELSE IF OsIsdir(fs, src)
    THEN (IF dst = <<>> /\ fs.cwd = <<>> THEN Fail("FileNotFoundError", fs)
          ELSE IF DestInSrc(fs, src, dst) THEN Fail("Error", fs)
          ELSE ShMoveCopied(fs, src, real, CopyTree(fs, src, real, FALSE)))
    ELSE ShMoveCopied(fs, src, real, Copy2(fs, src, real))

\* None as the value of shutil.move; a path it returns is never empty
ShNone == <<>>

\* shutil.move of an existing entry; the value is real_dst, None when src is dst
ShMove(fs, src, dst) ==
    IF ~OsIsdir(fs, dst) THEN ShMoveRename(fs, src, dst, dst, OsRename(fs, src, dst))
    ELSE IF OsNode(fs, src) = OsNode(fs, dst) THEN Done(ShNone, fs)
    ELSE IF OsExists(fs, OsJoin(dst, Basename(RStrip(src, {"/"}))))
    THEN Fail("Error", fs)
    ELSE ShMoveRename(fs, src, dst, OsJoin(dst, Basename(RStrip(src, {"/"}))),
                      OsRename(fs, src, OsJoin(dst, Basename(RStrip(src, {"/"})))))

(***************************************************************************)
(* py416.files: copy, move, rename and the methods of File that call them  *)
(***************************************************************************)
\* new_path of copy and move
NewPath(path, dest) == dest \o <<"/">> \o Basename(path)

\* copy: the function under the wrapper
copyBody(path, dest, overwrite, fs) ==
    IF OsIsfile(fs, path)
    THEN (IF OsExists(fs, NewPath(path, dest)) /\ ~overwrite THEN Fail("FileExistsError", fs)
          ELSE Copy2(fs, path, NewPath(path, dest)))
    ELSE IF OsExists(fs, NewPath(path, dest))
    THEN (IF overwrite THEN CopyTree(fs, path, NewPath(path, dest), TRUE)
          ELSE Fail("FileExistsError", fs))
    ELSE CopyTree(fs, path, NewPath(path, dest), FALSE)

\* move of a file onto an existing new_path, after delete(new_path)
moveFileOver(path, dest, deleted) ==
    IF deleted.exc # "" THEN deleted ELSE ShMove(deleted.fs, path, dest)

\* move of a folder onto an existing new_path, after copytree
moveFolderOver(path, dest, copied) ==
    IF copied.exc # "" THEN copied
    ELSE Valued(delete(path, TRUE, copied.fs), NewPath(path, dest))

\* move: the function under the wrapper
moveBody(path, dest, overwrite, fs) ==
    IF OsIsfile(fs, path)
    THEN (IF ~OsExists(fs, NewPath(path, dest)) THEN ShMove(fs, path, dest)
          ELSE IF ~overwrite THEN Fail("FileExistsError", fs)
          ELSE moveFileOver(path, dest, delete(NewPath(path, dest), FALSE, fs)))
    ELSE IF OsExists(fs, NewPath(path, dest))
    THEN (IF overwrite
          THEN moveFolderOver(path, dest, CopyTree(fs, path, NewPath(path, dest), TRUE))
          ELSE Fail("FileExistsError", fs))
    ELSE ShMove(fs, path, dest)

\* copymove: return forslash(func(path, dest, bool(overwrite)))
copymoveReturn(out) ==
    IF out.exc # "" THEN out
    ELSE IF out.val = ShNone THEN Fail("TypeError", out.fs)
    ELSE Done(forslashStr(out.val), out.fs)

\* copymove with the test of the destination before the test of equal paths
copymoveTests_fileTestFirst(path, dest, fs) ==
    IF ~OsExists(fs, path) THEN "FileNotFoundError"
    ELSE IF OsExists(fs, dest) /\ ~OsIsdir(fs, dest) THEN "FileExistsError"
    ELSE IF path = dest THEN "ValueError"
    ELSE ""

\* copymove: the tests of the wrapper, after both paths are resolved; TRUE stands for
\* the call of the function
copymoveTests(path, dest, fs) ==
    IF ~OsExists(fs, path) THEN "FileNotFoundError"
    ELSE IF path = dest THEN "ValueError"
    ELSE IF OsExists(fs, dest) /\ ~OsIsdir(fs, dest) THEN "FileExistsError"
    ELSE ""

\* copymove, after getpath(path): the second getpath is reached when path exists
copymoveDest(got, dest, fs) ==
    IF got.exc # "" THEN got
    ELSE IF ~OsExists(fs, got.val) THEN Fail("FileNotFoundError", fs)
    ELSE getpathFs(dest, fs)

\* copy
copy(path, dest, overwrite, fs) ==
    IF copymoveDest(getpathFs(path, fs), dest, fs).exc # ""
    THEN copymoveDest(getpathFs(path, fs), dest, fs)
    ELSE IF copymoveTests(getpathFs(path, fs).val, getpathFs(dest, fs).val, fs) # ""
    THEN Fail(copymoveTests(getpathFs(path, fs).val, getpathFs(dest, fs).val, fs), fs)
    ELSE copymoveReturn(copyBody(getpathFs(path, fs).val, getpathFs(dest, fs).val, overwrite,
                                 makedirs(getpathFs(dest, fs).val, fs)))

\* move
move(path, dest, overwrite, fs) ==
    IF copymoveDest(getpathFs(path, fs), dest, fs).exc # ""
    THEN copymoveDest(getpathFs(path, fs), dest, fs)
    ELSE IF copymoveTests(getpathFs(path, fs).val, getpathFs(dest, fs).val, fs) # ""
    THEN Fail(copymoveTests(getpathFs(path, fs).val, getpathFs(dest, fs).val, fs), fs)
    ELSE copymoveReturn(moveBody(getpathFs(path, fs).val, getpathFs(dest, fs).val, overwrite,
                                 makedirs(getpathFs(dest, fs).val, fs)))

\* rename with a str name, after newpath := joinpath(parent(path), name)
renameTo(path, newpath, fs) ==
    IF newpath.exc # "" THEN newpath
    ELSE Valued(OsRename(fs, path, newpath.val), newpath.val)

\* rename with a str name, after getpath
renameResolved(got, name, fs) ==
    IF got.exc # "" THEN got
    ELSE IF ~OsExists(fs, got.val) THEN Fail("FileNotFoundError", fs)
    ELSE renameTo(got.val,
                  Engine(joinpathStr(<<parentStr(got.val, PathOs(fs)), name>>, PathOs(fs)), fs),
                  fs)

\* rename with a str name
rename(path, name, fs) == renameResolved(getpathFs(path, fs), name, fs)

(***************************************************************************)
(* The callers.  A call draws its argument from a bounded set of values,   *)
(* runs the function under the platform and working directory of the       *)
(* process and records the outcome; Return forgets the finished call.      *)
(***************************************************************************)
\* bounds of the arguments
MaxTokens == 4

MaxParts == 3

\* the pieces path strings are built from
Tokens ==
    {<<"/">>, <<"\\">>, <<".">>, <<".", ".">>, <<"c">>, <<"D", ":">>, <<":">>, <<"U+0131">>}

RECURSIVE TokenStrings(_, _)
TokenStrings(toks, n) ==
    IF n = 0 THEN {<<>>}
    ELSE LET shorter == TokenStrings(toks, n - 1)
         IN  shorter \cup {s \o t : s \in shorter, t \in toks}

\* longer paths: a '..' at the end of a path of each root class, and folders three deep
LongPaths ==
    {<<"D", ":", "/", "c", "/", "d", "/", ".", ".">>,
     <<"D", ":", "\\", "c", "\\", "d", "\\", ".", ".">>,
     <<"/", "c", "/", "d", "/", ".", ".">>,
     <<"c", "/", "d", "/", "c", "/", ".", ".">>,
     <<"/", "/", "c", "/", ".", ".">>,
     <<"/", "/", "c", "/", "d", "/", ".", ".">>,
     <<"/", "/", "c", "/", "d", "/", "c", "/", ".", ".">>,
     <<"/", "c", "/", "d", "/", "c">>,
     <<"D", ":", "/", "c", "/", "d">>,
     <<"/", "/", "c", "/", "d", "/", "c">>}

\* every str of at most MaxTokens tokens, and the longer paths
PathStrings == TokenStrings(Tokens, MaxTokens) \cup LongPaths

\* the str arguments of checkwindrive: also with a character whose upper case is longer
DriveStrings == TokenStrings(Tokens \cup {<<"U+00DF">>}, MaxTokens - 1)

\* values that are not a str
NonStrings ==
    {PyNone, PyInt(0), PyInt(1), PyBool(FALSE), PyBool(TRUE),
     PyList(<<>>), PyTuple(<<>>), PyList(<<PyStr(<<"c">>)>>)}

PathArgs == {PyStr(s) : s \in PathStrings} \cup NonStrings

DriveArgs == {PyStr(s) : s \in DriveStrings} \cup NonStrings

\* the leaves handed to joinpath and unpack
JoinLeaves ==
    {PyStr(<<>>), PyStr(<<"/">>), PyStr(<<"c">>), PyStr(<<"c", "/", ".", ".">>),
     PyStr(<<"D", ":">>), PyStr(<<"c", "/", "D", ":">>), PyStr(<<"/", "/", "c">>),
     PyStr(<<"c", "\\", "c", "/">>), PyStr(<<"/", "c", "/", ".">>), PyNone, PyInt(1)}

RECURSIVE SeqsUpTo(_, _)
SeqsUpTo(S, n) ==
    IF n = 0 THEN {<<>>}
    ELSE LET shorter == SeqsUpTo(S, n - 1)
         IN  shorter \cup {Append(q, x) : q \in shorter, x \in S}

LeafSeqs == SeqsUpTo(JoinLeaves, MaxParts)

Shapes == {"flat", "list", "tuple", "split", "deep"}

\* a list/tuple nesting of the leaves, as the arguments of a call f(*args)
Nest(shape, leaves) ==
    CASE shape = "flat" -> PyTuple(leaves)
      [] shape = "list" -> PyTuple(<<PyList(leaves)>>)
      [] shape = "tuple" -> PyTuple(<<PyTuple(leaves)>>)
      [] shape = "split" ->
            IF leaves = <<>> THEN PyTuple(<<PyList(<<>>), PyTuple(<<>>)>>)
            ELSE PyTuple(<<PyList(<<Head(leaves)>>), PyTuple(<<PyList(Tail(leaves))>>)>>)
      [] shape = "deep" ->
            PyTuple([i \in 1..Len(leaves) |-> PyList(<<PyTuple(<<leaves[i]>>)>>)])

NestedArgs == {Nest(shape, leaves) : shape \in Shapes, leaves \in LeafSeqs}

\* platform and working directory as os.getcwd() reports it
Envs ==
    {[name |-> "posix", cwd |-> <<"/">>],
     [name |-> "posix", cwd |-> <<"/", "c">>],
     [name |-> "nt", cwd |-> <<"D", ":", "\\">>],
     [name |-> "nt", cwd |-> <<"D", ":", "\\", "c">>],
     [name |-> "nt", cwd |-> <<"\\", "\\", "c", "\\", "c">>]}

os == [name |-> osname, cwd |-> oscwd]

Init ==
    /\ \E e \in Envs : osname = e.name /\ oscwd = e.cwd
    /\ op = ""
    /\ arg = PyNone
    /\ res = Ret(<<>>)
    /\ dirs = {<<>>}
    /\ files = {}
    /\ fobj = PyNone
    /\ frame = NoFrame
    /\ calls = 0

Called(name, v, outcome) ==
    /\ op' = name
    /\ arg' = v
    /\ res' = outcome
    /\ UNCHANGED <<osname, oscwd, dirs, files, fobj, calls, frame>>

CallForslash == op = "" /\ \E v \in DriveArgs : Called("forslash", v, forslash(v))

CallCheckwindrive == op = "" /\ \E v \in DriveArgs : Called("checkwindrive", v, checkwindrive(v))

CallSplitpath == op = "" /\ \E v \in PathArgs : Called("splitpath", v, splitpath(v, os))

CallGetpath == op = "" /\ \E v \in PathArgs : Called("getpath", v, getpath(v, os))

CallParent == op = "" /\ \E v \in PathArgs : Called("parent", v, parent(v, os))

CallJoinpath == op = "" /\ \E v \in NestedArgs : Called("joinpath", v, joinpath(v, os))

CallUnpack == op = "" /\ \E v \in NestedArgs \cup JoinLeaves : Called("unpack", v, Ret(unpack(v)))

CallFileIsroot ==
    op = "" /\ \E v \in PathArgs : Called("File.isroot", v, FileIsrootOutcome(FileInit(v, os), os))

Return ==
    /\ op # ""
    /\ op' = ""
    /\ arg' = PyNone
    /\ res' = Ret(<<>>)
    /\ UNCHANGED <<osname, oscwd, dirs, files, fobj, calls, frame>>

Next ==
    \/ CallForslash
    \/ CallCheckwindrive
    \/ CallSplitpath
    \/ CallGetpath
    \/ CallParent
    \/ CallJoinpath
    \/ CallUnpack
    \/ CallFileIsroot
    \/ Return

Spec == Init /\ [][Next]_vars

(***************************************************************************)
(* The callers of the file functions.  The process starts in any file      *)
(* tree made of '/c', '/d', '/c/c' and '/c/d', each a folder, a file or    *)
(* absent, in any folder of it, and makes at most MaxCalls calls.          *)
(***************************************************************************)
\* bound of the number of calls in one run
MaxCalls == 2

Names == {<<"c">>, <<"d">>}

\* the nodes beneath the root at the start
StartNodes == {<<a>> : a \in Names} \cup {<<<<"c">>, b>> : b \in Names}

\* the text of the files at the start
StartText == <<"m">>

\* a file tree: no node is both folder and file, and every node lies in a folder
IsTree(D, F) ==
    /\ D \cap F = {}
    /\ \A n \in D \cup F : Len(n) = 1 \/ SubSeq(n, 1, Len(n) - 1) \in D

StartTrees ==
    {[dirs |-> D \cup {<<>>}, files |-> {[node |-> n, text |-> StartText] : n \in F}] :
        <<D, F>> \in {t \in (SUBSET StartNodes) \X (SUBSET StartNodes) : IsTree(t[1], t[2])}}

\* the path arguments
FsPaths ==
    {<<>>, <<"/">>, <<".">>, <<".", ".">>, <<"c">>, <<"d">>, <<"c", "/", "d">>,
     <<"/", "c">>, <<"/", "d">>, <<"/", "c", "/", "d">>}

\* the msg arguments of makefile
Msgs == {<<>>, <<"n">>}

\* the file tree and working directory of the process
FsNow == [dirs |-> dirs, files |-> files, cwd |-> oscwd]

FsInit ==
    /\ osname = "posix"
    /\ \E t \in StartTrees :
          /\ dirs = t.dirs
          /\ files = t.files
          /\ \E n \in t.dirs : oscwd = OsPath(n)
    /\ op = ""
    /\ arg = PyNone
    /\ res = Ret(<<>>)
    /\ fobj = PyNone
    /\ frame = NoFrame
    /\ calls = 0

\* a call of a function: v is the tuple of its arguments
FsCalled(name, v, out) ==
    /\ op' = name
    /\ arg' = v
    /\ res' = [exc |-> out.exc, val |-> out.val]
    /\ dirs' = out.fs.dirs
    /\ files' = out.fs.files
    /\ oscwd' = out.fs.cwd
    /\ calls' = calls + 1
    /\ UNCHANGED <<osname, fobj, frame>>

CallCd ==
    /\ op = ""
    /\ calls < MaxCalls
    /\ \E p \in FsPaths : FsCalled("cd", PyTuple(<<PyStr(p)>>), cd(p, FsNow))

\* the path arguments of rmdir: '//c' is another spelling of '/c'
RmdirPaths == FsPaths \cup {<<"/", "/", "c">>}

CallRmdir ==
    /\ op = ""
    /\ calls < MaxCalls
    /\ \E p \in RmdirPaths : \E delroot \in BOOLEAN :
          FsCalled("rmdir", PyTuple(<<PyStr(p), PyBool(delroot)>>), rmdir(p, delroot, FsNow))

CallDelete ==
    /\ op = ""
    /\ calls < MaxCalls
    /\ \E p \in FsPaths : \E force \in BOOLEAN :
          FsCalled("delete", PyTuple(<<PyStr(p), PyBool(force)>>), delete(p, force, FsNow))

CallMakefile ==
    /\ op = ""
    /\ calls < MaxCalls
    /\ \E p \in FsPaths : \E msg \in Msgs : \E overwrite \in BOOLEAN :
          FsCalled("makefile", PyTuple(<<PyStr(p), PyStr(msg), PyBool(overwrite)>>),
                   makefile(p, msg, overwrite, FsNow))

FsNext ==
    \/ CallCd
    \/ CallRmdir
    \/ CallDelete
    \/ CallMakefile
    \/ Return

FsSpec == FsInit /\ [][FsNext]_vars

(***************************************************************************)
(* The third specification: one File object on the POSIX file tree, and    *)
(* its methods move, rename, copy and delete.                              *)
(***************************************************************************)
\* the paths a File is made of
FilePaths == {<<"c">>, <<"/", "c">>, <<"/", "d">>, <<"/", "c", "/", "d">>}

\* the dest arguments of File.move and File.copy
FileDests == {<<>>, <<"/">>, <<"c">>, <<"/", "c">>, <<"/", "d">>}

\* the name arguments of File.rename
FileNames == {<<>>, <<"c">>, <<"d">>, <<".", ".">>}

FileSpecInit ==
    /\ osname = "posix"
    /\ \E t \in StartTrees :
          /\ dirs = t.dirs
          /\ files = t.files
          /\ \E n \in t.dirs : oscwd = OsPath(n)
    /\ \E p \in FilePaths : fobj = PyStr(FileInit(PyStr(p), PathOs(FsNow)).val)
    /\ frame = NoFrame
    /\ op = ""
    /\ arg = PyNone
    /\ res = Ret(<<>>)
    /\ calls = 0

\* a call of a method: v is the tuple of its arguments, tracked says whether the method
\* assigns what the function returns to self.path
FileCalled(name, v, out, tracked) ==
    /\ op' = name
    /\ arg' = v
    /\ res' = [exc |-> out.exc, val |-> out.val]
    /\ dirs' = out.fs.dirs
    /\ files' = out.fs.files
    /\ oscwd' = out.fs.cwd
    /\ fobj' = IF tracked /\ out.exc = "" THEN PyStr(out.val) ELSE fobj
    /\ calls' = calls + 1
    /\ UNCHANGED <<osname, frame>>

\* the call is left out when shutil.copytree would copy a folder into itself
CopyEnds(path, dest, fs) ==
    getpathFs(dest, fs).exc # "" \/ ~CopiesIntoItself(fs, path, getpathFs(dest, fs).val)

CallFileMove ==
    /\ op = ""
    /\ calls < MaxCalls
    /\ \E dest \in FileDests : \E overwrite \in BOOLEAN :
          /\ CopyEnds(fobj.s, dest, FsNow)
          /\ FileCalled("File.move", PyTuple(<<PyStr(dest), PyBool(overwrite)>>),
                        move(fobj.s, dest, overwrite, FsNow), TRUE)

CallFileRename ==
    /\ op = ""
    /\ calls < MaxCalls
    /\ \E name \in FileNames :
          FileCalled("File.rename", PyTuple(<<PyStr(name)>>), rename(fobj.s, name, FsNow), TRUE)

CallFileCopy ==
    /\ op = ""
    /\ calls < MaxCalls
    /\ \E dest \in FileDests : \E overwrite \in BOOLEAN :
          /\ CopyEnds(fobj.s, dest, FsNow)
          /\ FileCalled("File.copy", PyTuple(<<PyStr(dest), PyBool(overwrite)>>),
                        copy(fobj.s, dest, overwrite, FsNow), FALSE)

CallFileDelete ==
    /\ op = ""
    /\ calls < MaxCalls
    /\ \E force \in BOOLEAN :
          FileCalled("File.delete", PyTuple(<<PyBool(force)>>), delete(fobj.s, force, FsNow), FALSE)

FileNext ==
    \/ CallFileMove
    \/ CallFileRename
    \/ CallFileCopy
    \/ CallFileDelete
    \/ Return

FileSpec == FileSpecInit /\ [][FileNext]_vars

(***************************************************************************)
(* The fourth specification: one call of getpath or parent that runs step  *)
(* by step while another thread calls cd.  A step ends after a call of     *)
(* os.getcwd(); frame holds the locals of the call, the number of its      *)
(* calls of os.getcwd() and the working directories current during it.     *)
(***************************************************************************)
\* the path arguments of the call
RacePaths ==
    {<<>>, <<".">>, <<".", ".">>, <<"c">>, <<"/", "c">>, <<".", "/", "c">>,
     <<"c", "/", ".", "/", "c">>, <<"D", ":", "/", "c">>, <<"/", "/", "c">>}

\* the path arguments of cd in the other thread
RaceCdPaths == {<<"/">>, <<"/", "c">>, <<"/", "d">>, <<".", ".">>}

\* the frame of a call of fn(path) that starts under the working directory cwd
NewFrame(fn, path, cwd) ==
    [pc |-> "split", fn |-> fn, arg |-> path, stage |-> 1, path |-> path, parts |-> <<>>,
     i |-> 0, splits |-> <<>>, joined |-> <<>>, val |-> <<>>, reads |-> 0, seen |-> {cwd}]

\* splitpath(path) calls os.getcwd(): path is '.', '..' or more dots
ReadsCwd(path) == path # <<>> /\ AllDots(forslashStr(path))

\* the frame with one more call of os.getcwd() when splitpath(path) makes one
Counted(f, path) == IF ReadsCwd(path) THEN [f EXCEPT !.reads = @ + 1] ELSE f

\* parent: the test for a root on the path getpath has returned
parentAtRoot(path, now) ==
    \/ path = <<"/">>
    \/ checkwindriveStr(path) # <<>>
    \/ StartsWith(path, <<"/", "/">>) /\ Len(splitpathStr(path, now)) = 1

\* getpath returns v: the call returns, or parent goes on to getpath(f'{path}/..')
getpathReturns(f, v, now) ==
    IF f.fn = "getpath" \/ f.stage = 2 \/ v = <<>> \/ parentAtRoot(v, now)
    THEN [f EXCEPT !.pc = "return", !.val = v]
    ELSE [f EXCEPT !.pc = "split", !.stage = 2, !.path = v \o <<"/", ".", ".">>]

\* getpath: parts := list(splitpath(path)), with the test for ['']
getpathSplitStep(f, parts, now) ==
    IF parts = <<<<>>>> THEN getpathReturns(f, <<>>, now)
    ELSE [f EXCEPT !.pc = "join", !.parts = parts, !.i = 1, !.splits = <<>>]

\* getpath, after joinpath(parts) has returned joined
getpathJoinedStep(f, joined, now) ==
    IF f.pc = "rejoin" THEN getpathReturns(f, joined, now)
    ELSE IF StartsWith(f.parts[1], <<"/", "/">>) \/ f.parts[1] = <<"/">>
    THEN getpathReturns(f, joined, now)
    ELSE IF checkwindriveStr(f.parts[1]) # <<>>
    THEN [f EXCEPT !.pc = "rejoin", !.parts = [@ EXCEPT ![1] = checkwindriveStr(f.parts[1])],
                   !.i = 1, !.splits = <<>>]
    ELSE [f EXCEPT !.pc = "prefix", !.joined = joined]

\* joinpath: splitpath of the next part, and the join after the last one
joinpathStep(f, splits, now) ==
    IF f.i < Len(f.parts) THEN [f EXCEPT !.i = @ + 1, !.splits = splits]
    ELSE getpathJoinedStep(f, joinParts(Flatten(splits)), now)

RaceInit ==
    /\ osname = "posix"
    /\ dirs = {<<>>, <<<<"c">>>>, <<<<"d">>>>}
    /\ files = {}
    /\ oscwd \in {<<"/">>, <<"/", "c">>}
    /\ op = ""
    /\ arg = PyNone
    /\ res = Ret(<<>>)
    /\ fobj = PyNone
    /\ calls = 0
    /\ frame = NoFrame

\* a thread calls getpath or parent
CallBegins ==
    /\ op = ""
    /\ frame.pc = "idle"
    /\ \E fn \in {"getpath", "parent"} : \E path \in RacePaths :
          frame' = NewFrame(fn, path, oscwd)
    /\ UNCHANGED <<osname, oscwd, op, arg, res, dirs, files, fobj, calls>>

GetpathSplits ==
    /\ frame.pc = "split"
    /\ frame' = getpathSplitStep(Counted(frame, frame.path),
                                 splitpathStr(frame.path, PathOs(FsNow)), PathOs(FsNow))
    /\ UNCHANGED <<osname, oscwd, op, arg, res, dirs, files, fobj, calls>>

JoinpathSplits ==
    /\ frame.pc \in {"join", "rejoin"}
    /\ frame' = joinpathStep(Counted(frame, frame.parts[frame.i]),
                             Append(frame.splits,
                                    splitpathStr(frame.parts[frame.i], PathOs(FsNow))),
                             PathOs(FsNow))
    /\ UNCHANGED <<osname, oscwd, op, arg, res, dirs, files, fobj, calls>>

GetpathPrefixes ==
    /\ frame.pc = "prefix"
    /\ frame' = getpathReturns([frame EXCEPT !.reads = @ + 1],
                               getcwd(PathOs(FsNow)) \o <<"/">> \o frame.joined,
                               PathOs(FsNow))
    /\ UNCHANGED <<osname, oscwd, op, arg, res, dirs, files, fobj, calls>>

CallReturns ==
    /\ frame.pc = "return"
    /\ op' = frame.fn
    /\ arg' = PyStr(frame.arg)
    /\ res' = Ret(frame.val)
    /\ frame' = [frame EXCEPT !.pc = "done"]
    /\ UNCHANGED <<osname, oscwd, dirs, files, fobj, calls>>

CallForgotten ==
    /\ frame.pc = "done"
    /\ op' = ""
    /\ arg' = PyNone
    /\ res' = Ret(<<>>)
    /\ frame' = NoFrame
    /\ UNCHANGED <<osname, oscwd, dirs, files, fobj, calls>>

\* the other thread has called cd(p): its os.chdir takes place
CdChanged(out) ==
    /\ out.exc = ""
    /\ oscwd' = out.fs.cwd
    /\ dirs' = out.fs.dirs
    /\ files' = out.fs.files
    /\ frame' = IF frame.pc \in {"idle", "done"} THEN frame
                ELSE [frame EXCEPT !.seen = @ \cup {out.fs.cwd}]
    /\ calls' = calls + 1
    /\ UNCHANGED <<osname, op, arg, res, fobj>>

OtherThreadCd ==
    /\ calls < MaxCalls
    /\ \E p \in RaceCdPaths : CdChanged(cd(p, FsNow))

RaceNext ==
    \/ CallBegins
    \/ GetpathSplits
    \/ JoinpathSplits
    \/ GetpathPrefixes
    \/ CallReturns
    \/ CallForgotten
    \/ OtherThreadCd

RaceSpec == RaceInit /\ [][RaceNext]_vars

(***************************************************************************)
(* The fifth specification: the functions copy and move called on the      *)
(* POSIX file tree with any path, any dest and either value of overwrite.  *)
(***************************************************************************)
\* the path arguments of copy and move
CopyPaths == {<<>>, <<"c">>, <<"/", "c">>, <<"/", "d">>, <<"/", "c", "/">>}

\* the dest arguments of copy and move
CopyDests == {<<>>, <<"/">>, <<"/", "c">>, <<"/", "d">>, <<"/", "d", "/", "d">>}

\* the call is left out when shutil.copytree would copy a folder into itself
CopyCallEnds(path, dest, fs) ==
    getpathFs(path, fs).exc # "" \/ CopyEnds(getpathFs(path, fs).val, dest, fs)

CallCopy ==
    /\ op = ""
    /\ calls < MaxCalls
    /\ \E path \in CopyPaths : \E dest \in CopyDests : \E overwrite \in BOOLEAN :
          /\ CopyCallEnds(path, dest, FsNow)
          /\ FsCalled("copy", PyTuple(<<PyStr(path), PyStr(dest), PyBool(overwrite)>>),
                      copy(path, dest, overwrite, FsNow))

CallMove ==
    /\ op = ""
    /\ calls < MaxCalls
    /\ \E path \in CopyPaths : \E dest \in CopyDests : \E overwrite \in BOOLEAN :
          /\ CopyCallEnds(path, dest, FsNow)
          /\ FsCalled("move", PyTuple(<<PyStr(path), PyStr(dest), PyBool(overwrite)>>),
                      move(path, dest, overwrite, FsNow))

CopyNext ==
    \/ CallCopy
    \/ CallMove
    \/ Return

CopySpec == FsInit /\ [][CopyNext]_vars

(***************************************************************************)
(* The sixth specification: the console script jsp.  One run of jsp takes  *)
(* the words of the command line, goes round its loop once per step and    *)
(* calls pretty, or prints a message and returns without calling it.       *)
(* pretty is modelled by what it does with sort_keys and overwrite for one *)
(* .json file whose '_pretty.json' file exists.                            *)
(***************************************************************************)
\* bound of the number of words on the command line
MaxArgv == 4

\* a flag of jsp
Flag(c) == <<"-", c>>

jspFlags == {Flag("p"), Flag("i"), Flag("s"), Flag("o")}

\* the words of the command line
ArgWords ==
    jspFlags \cup {<<"T", "r", "u", "e">>, <<"F", "a", "l", "s", "e">>, <<"2">>, <<"-", "2">>,
                   <<"c">>}

DigitChars == <<"0", "1", "2", "3", "4", "5", "6", "7", "8", "9">>

IsDigits(s) == s # <<>> /\ \A i \in 1..Len(s) : \E d \in 1..10 : DigitChars[d] = s[i]

RECURSIVE DigitsValue(_)
DigitsValue(s) ==
    IF s = <<>> THEN 0
    ELSE 10 * DigitsValue(SubSeq(s, 1, Len(s) - 1))
           + (CHOOSE d \in 1..10 : DigitChars[d] = s[Len(s)]) - 1

\* int(s) of a word
intStr(s) ==
    IF IsDigits(s) THEN [exc |-> "", val |-> DigitsValue(s)]
    ELSE IF s # <<>> /\ s[1] \in {"-", "+"} /\ IsDigits(Tail(s))
    THEN [exc |-> "", val |-> IF s[1] = "-" THEN 0 - DigitsValue(Tail(s)) ELSE DigitsValue(Tail(s))]
    ELSE [exc |-> "ValueError", val |-> 0]

\* pretty: json.dump(contents, f, indent=indent, sort_keys=sort_keys) sorts the keys
prettySorts(sort_keys) == Truthy(sort_keys)

\* pretty: the file is skipped when 'not overwrite and os.path.exists(new_file)'
prettySkips(overwrite, exists) == ~Truthy(overwrite) /\ exists

\* the locals of a run of jsp
JspFrame(argv) ==
    [pc |-> "loop", argv |-> argv, args_given |-> argv,
     args_to_pass |-> <<PyStr(<<".">>), PyInt(4), PyBool(TRUE), PyBool(TRUE)>>,
     steps |-> 0, sorts |-> FALSE, skips |-> FALSE]

\* jsp prints a message and returns
jspStops(f) == [f EXCEPT !.pc = "returned"]

\* args_to_pass[k] = v, then the two pops
jspSets(f, k, v) ==
    [f EXCEPT !.args_to_pass[k] = v,
              !.args_given = SubSeq(@, 3, Len(@)),
              !.steps = @ + 1]

\* the -i branch after int(args_given[1])
jspIndent(f, parsed) ==
    IF parsed.exc # "" THEN jspStops(f)
    ELSE jspSets(f, 2, PyInt(IF parsed.val < 0 THEN 0 ELSE parsed.val))

\* one round of the loop, args_given not empty
jspRound(f, given) ==
    IF given[1] \notin jspFlags THEN jspStops(f)
    ELSE IF Len(given) < 2 THEN jspStops(f)
    ELSE IF given[2] \in jspFlags \ {given[1]} THEN jspStops(f)
    ELSE IF given[1] = Flag("p") THEN jspSets(f, 1, PyStr(given[2]))
    ELSE IF given[1] = Flag("i") THEN jspIndent(f, intStr(given[2]))
    ELSE IF given[1] = Flag("s") THEN jspSets(f, 3, PyBool(Truthy(PyStr(given[2]))))
    ELSE jspSets(f, 4, PyStr(given[2]))

\* pretty(*args_to_pass)
jspCalls(f, passed) ==
    [f EXCEPT !.pc = "called",
              !.sorts = prettySorts(passed[3]),
              !.skips = prettySkips(passed[4], TRUE)]

JspInit ==
    /\ osname = "posix"
    /\ oscwd = <<"/">>
    /\ dirs = {<<>>}
    /\ files = {}
    /\ op = ""
    /\ arg = PyNone
    /\ res = Ret(<<>>)
    /\ fobj = PyNone
    /\ frame = NoFrame
    /\ calls = 0

JspBegins ==
    /\ frame.pc = "idle"
    /\ \E argv \in SeqsUpTo(ArgWords, MaxArgv) : frame' = JspFrame(argv)
    /\ UNCHANGED <<osname, oscwd, op, arg, res, dirs, files, fobj, calls>>

JspLoops ==
    /\ frame.pc = "loop"
    /\ frame.args_given # <<>>
    /\ frame' = jspRound(frame, frame.args_given)
    /\ UNCHANGED <<osname, oscwd, op, arg, res, dirs, files, fobj, calls>>

JspCallsPretty ==
    /\ frame.pc = "loop"
    /\ frame.args_given = <<>>
    /\ frame' = jspCalls(frame, frame.args_to_pass)
    /\ UNCHANGED <<osname, oscwd, op, arg, res, dirs, files, fobj, calls>>

JspReturns ==
    /\ frame.pc \in {"called", "returned"}
    /\ frame' = NoFrame
    /\ UNCHANGED <<osname, oscwd, op, arg, res, dirs, files, fobj, calls>>

JspNext ==
    \/ JspBegins
    \/ JspLoops
    \/ JspCallsPretty
    \/ JspReturns

JspSpec == JspInit /\ [][JspNext]_vars

(***************************************************************************)
(* Vocabulary of the properties                                            *)
(***************************************************************************)
\* the ASCII letters: the upper-case ones and the lower-case one of the alphabet
AsciiLetters == UpperLetters \cup {"c", "d"}

AsciiUpper(c) == IF c = "c" THEN "C" ELSE IF c = "d" THEN "D" ELSE c

\* the components of a path between its slashes of either style
Components(s) == StrSplit(ReplaceBackslash(s))

\* no component of the path is a dot segment: '.', '..' or more dots
DotFree(s) ==
    \A i \in 1..Len(Components(s)) :
        Components(s)[i] = <<>> \/ ~AllDots(Components(s)[i])

\* t is one ASCII letter, ':' and at most one '/'
IsDriveSpelling(t) ==
    /\ Len(t) \in {2, 3}
    /\ t[1] \in AsciiLetters
    /\ t[2] = ":"
    /\ Len(t) = 3 => t[3] = "/"

\* s spells a bare root: '/', a drive root, or '//host' with nothing after the host
IsBareRoot(s) ==
    LET t == ReplaceBackslash(s)
    IN  \/ t = <<"/">>
        \/ IsDriveSpelling(t)
        \/ /\ StartsWith(t, <<"/", "/">>)
           /\ Len(t) > 2
           /\ Len(Components(s)) = 3
           /\ DotFree(s)

\* s is Unix-, UNC- or drive-rooted
IsAbsolute(s) ==
    \/ StartsWith(ReplaceBackslash(s), <<"/">>)
    \/ LET first == Components(s)[1]
       IN  Len(first) = 2 /\ first[1] \in AsciiLetters /\ first[2] = ":"

\* s is a two-component relative path 'name/..'
IsNameDotDot(s) ==
    LET c == Components(s)
    IN  /\ Len(c) = 2
        /\ c[2] = <<".", ".">>
        /\ c[1] # <<>>
        /\ ~IsAbsolute(s)

\* the leaves of a call's arguments are all str
AllStr(leaves) == \A i \in 1..Len(leaves) : leaves[i].k = "str"

\* the characters of each leaf
LeafStrings(leaves) == [i \in 1..Len(leaves) |-> leaves[i].s]

\* q with x inserted after its first i elements
InsertAt(q, i, x) == SubSeq(q, 1, i) \o <<x>> \o SubSeq(q, i + 1, Len(q))

\* the elements joinpath is said to ignore
Ignorable == {<<>>, <<"c", "/", ".", ".">>}

\* the leaves of a nested list/tuple value from left to right, last leaf first taken off
RECURSIVE LeavesOf(_)
LeavesOf(v) ==
    IF v.k \notin {"list", "tuple"} THEN <<v>>
    ELSE IF v.items = <<>> THEN <<>>
    ELSE LET n == Len(v.items)
         IN  LeavesOf([v EXCEPT !.items = SubSeq(v.items, 1, n - 1)]) \o
             (IF v.items[n].k \in {"list", "tuple"} THEN LeavesOf(v.items[n]) ELSE <<v.items[n]>>)

(***************************************************************************)
(* Properties                                                              *)
(***************************************************************************)
\* C1: for every path without a '.' or '..' component, splitting, joining and
\* splitting again gives the segments of the first split
C1_RoundTrip ==
    (op = "splitpath" /\ arg.k = "str" /\ DotFree(arg.s))
        => /\ res.exc = ""
           /\ splitpathStr(joinpathStr(res.val, os), os) = res.val

\* C2: for every path without dot segments and every working directory,
\* resolving the resolved path again under the same working directory changes nothing
C2_Idempotent ==
    (op = "getpath" /\ arg.k = "str" /\ DotFree(arg.s))
        => /\ res.exc = ""
           /\ getpathStr(res.val, os) = res.val

\* C3: the parent of a bare root ('/', a drive root in any spelling, '//host') is the
\* resolved root itself, never an error and never the empty string
C3_RootSelfParent ==
    (op = "parent" /\ arg.k = "str" /\ IsBareRoot(arg.s))
        => /\ res.exc = ""
           /\ res.val = getpathStr(arg.s, os)
           /\ res.val # <<>>

\* C3 witness: parent has been called on the drive root 'D:' and returned 'D:/'
C3_Witness ==
    /\ op = "parent"
    /\ arg = PyStr(<<"D", ":">>)
    /\ res = Ret(<<"D", ":", "/">>)

\* C4: checkwindrive never raises for a str and returns the upper-case letter followed
\* by ':/' exactly when the str, backslashes turned into '/', is one ASCII letter, ':'
\* and at most one '/'; it returns '' for every other str
C4_DriveExactly ==
    (op = "checkwindrive" /\ arg.k = "str")
        => /\ res.exc = ""
           /\ LET t == ReplaceBackslash(arg.s)
              IN  res.val = IF IsDriveSpelling(t) THEN <<AsciiUpper(t[1]), ":", "/">> ELSE <<>>

\* C5: splitpath, getpath and parent raise a type error for every argument that is not
\* a str, and joinpath raises it when a leaf is not a str
C5_NonStringRejected ==
    /\ (op \in {"splitpath", "getpath", "parent"} /\ arg.k # "str") => res.exc = "TypeError"
    /\ (op = "joinpath" /\ ~AllStr(unpack(arg))) => res.exc = "TypeError"

\* C6 as stated: splitpath of '' and of a two-component relative path 'name/..' returns
\* the segment sequence of length 0
C6_EmptySequence ==
    (op = "splitpath" /\ arg.k = "str" /\ (arg.s = <<>> \/ IsNameDotDot(arg.s)))
        => /\ res.exc = ""
           /\ Len(res.val) = 0

\* C6 amended: splitpath of '' and of a two-component relative path 'name/..' returns
\* the sequence of length 1 whose only segment is the empty string
C6_OneEmptySegment ==
    (op = "splitpath" /\ arg.k = "str" /\ (arg.s = <<>> \/ IsNameDotDot(arg.s)))
        => res = Ret(<<<<>>>>)

\* C6 witness: splitpath has been called on 'c/..' and returned ('',)
C6_Witness ==
    /\ op = "splitpath"
    /\ arg = PyStr(<<"c", "/", ".", ".">>)
    /\ res = Ret(<<<<>>>>)

\* C7: for every working directory, getpath and parent of '' and of a two-component
\* relative path 'name/..' return the empty string and raise nothing
C7_EmptyPropagates ==
    (op \in {"getpath", "parent"} /\ arg.k = "str" /\ (arg.s = <<>> \/ IsNameDotDot(arg.s)))
        => res = Ret(<<>>)

\* C7 witness: parent has been called on 'c\..' in the working directory '/c' and returned ''
C7_Witness ==
    /\ op = "parent"
    /\ arg = PyStr(<<"c", "\\", ".", ".">>)
    /\ oscwd = <<"/", "c">>
    /\ res = Ret(<<>>)

\* C8: inserting an empty-string element or an element that cancels to nothing at any
\* position of joinpath's arguments never changes the result, and joining nothing or
\* only such elements returns ''
C8_IgnoresEmpty ==
    (op = "joinpath" /\ AllStr(unpack(arg)))
        => LET leaves == LeafStrings(unpack(arg))
           IN  /\ res.exc = ""
               /\ \A i \in 0..Len(leaves) : \A e \in Ignorable :
                      joinpathStr(InsertAt(leaves, i, e), os) = res.val
               /\ (\A i \in 1..Len(leaves) : leaves[i] \in Ignorable) => res.val = <<>>

\* C9: unpack returns the leaves of a nested list/tuple value from left to right (a
\* value that is no list or tuple alone), and joinpath of dot-free leaves depends only
\* on the leaf sequence and is unchanged when every leaf is replaced by its splitpath
\* segments
C9_Flattening ==
    /\ op = "unpack" => res = Ret(LeavesOf(arg))
    /\ (op = "joinpath" /\ AllStr(LeavesOf(arg))
            /\ \A i \in 1..Len(LeavesOf(arg)) : DotFree(LeavesOf(arg)[i].s))
        => LET leaves == LeafStrings(LeavesOf(arg))
               segments == Flatten([i \in 1..Len(leaves) |-> splitpathStr(leaves[i], os)])
           IN  /\ res = Ret(joinpathStr(leaves, os))
               /\ res = Ret(joinpathStr(segments, os))

\* C10: for every absolute path without dot segments, getpath returns
\* joinpath(splitpath(path)), and the same under every platform and working directory
C10_AbsoluteIgnoresCwd ==
    (op = "getpath" /\ arg.k = "str" /\ DotFree(arg.s) /\ IsAbsolute(arg.s))
        => /\ res = Ret(joinpathStr(splitpathStr(arg.s, os), os))
           /\ \A e \in Envs : getpathStr(arg.s, e) = res.val

\* C10 witness: getpath has been called on 'D:\c' on a platform whose working directory is
\* '/c' and returned 'D:/c'
C10_Witness ==
    /\ op = "getpath"
    /\ arg = PyStr(<<"D", ":", "\\", "c">>)
    /\ oscwd = <<"/", "c">>
    /\ res = Ret(<<"D", ":", "/", "c">>)

\* C11: for every relative path without dot segments and every working directory, a root
\* included, the segments of getpath(path) are the segments of the working directory
\* followed by the segments of the path
C11_RelativeInsideCwd ==
    (op = "getpath" /\ arg.k = "str" /\ arg.s # <<>> /\ DotFree(arg.s) /\ ~IsAbsolute(arg.s))
        => /\ res.exc = ""
           /\ splitpathStr(res.val, os)
                = splitpathStr(getcwd(os), os) \o splitpathStr(arg.s, os)

\* C12: for every path whose resolved form has a segment below its root, the segments
\* of parent(path) are the segments of getpath(path) without the last one
C12_ParentDropsLast ==
    (op = "parent" /\ arg.k = "str" /\ Len(splitpathStr(getpathStr(arg.s, os), os)) > 1)
        => /\ res.exc = ""
           /\ splitpathStr(res.val, os)
                = SubSeq(splitpathStr(getpathStr(arg.s, os), os), 1,
                         Len(splitpathStr(getpathStr(arg.s, os), os)) - 1)

\* C13: forslash changes every backslash into '/' and nothing else, and no str returned
\* by joinpath, getpath or parent and no segment returned by splitpath holds a backslash
C13_ForwardSlashesOnly ==
    /\ (op = "forslash" /\ arg.k = "str")
        => /\ res.exc = ""
           /\ Len(res.val) = Len(arg.s)
           /\ \A i \in 1..Len(arg.s) :
                  res.val[i] = IF arg.s[i] = "\\" THEN "/" ELSE arg.s[i]
    /\ (op \in {"joinpath", "getpath", "parent"} /\ res.exc = "")
        => \A i \in 1..Len(res.val) : res.val[i] # "\\"
    /\ (op = "splitpath" /\ res.exc = "")
        => \A i \in 1..Len(res.val) : \A j \in 1..Len(res.val[i]) : res.val[i][j] # "\\"

\* C13 witness: on the platform whose working directory is 'D:\c', getpath has been
\* called on 'c\c' and returned 'D:/c/c/c'
C13_Witness ==
    /\ op = "getpath"
    /\ arg = PyStr(<<"c", "\\", "c">>)
    /\ oscwd = <<"D", ":", "\\", "c">>
    /\ res = Ret(<<"D", ":", "/", "c", "/", "c", "/", "c">>)

\* C14: for every path that begins with two slashes of either style, the first segment
\* of splitpath is '//' followed by the host as given and the components after the host
\* are the segments that follow
C14_UncHostKept ==
    (op = "splitpath" /\ arg.k = "str" /\ StartsWith(ReplaceBackslash(arg.s), <<"/", "/">>))
        => /\ res.exc = ""
           /\ res.val[1] = <<"/", "/">> \o Components(arg.s)[3]
           /\ \A i \in 2..Len(res.val) : \A j \in 1..Len(res.val[i]) : res.val[i][j] # "/"

\* C20: File(path).isroot is true exactly when the path the File tracks is a bare root:
\* '/', a drive root or '//host'; it is false for a File made from '' or a cancelled path
C20_IsrootExactlyRoots ==
    (op = "File.isroot" /\ arg.k = "str")
        => res = Ret(PyBool(IsBareRoot(getpathStr(arg.s, os))))

\* the root class of the first segment of a splitpath result
IsUnixRoot(seg) == seg = <<"/">>

IsUncRoot(seg) == StartsWith(seg, <<"/", "/">>)

IsDriveRoot(seg) == Len(seg) = 3 /\ seg[1] \in UpperLetters /\ seg[2] = ":" /\ seg[3] = "/"

\* C21: for every non-empty path that is not made of dots alone and does not cancel, the
\* first segment of splitpath is '/' exactly when the path, backslashes turned into '/',
\* starts with one '/' and no second one; it starts with '//' exactly when the path does;
\* it is a canonical drive root exactly when the characters before the first slash pass
\* checkwindrive; and getpath of a path of none of these classes is the working
\* directory, '/' and the joined segments
C21_RootClassByInspection ==
    /\ (op = "splitpath" /\ arg.k = "str" /\ arg.s # <<>> /\ ~AllDots(arg.s)
           /\ res # Ret(<<<<>>>>))
         => /\ res.exc = ""
            /\ IsUnixRoot(res.val[1])
                 <=> (StartsWith(ReplaceBackslash(arg.s), <<"/">>)
                        /\ ~StartsWith(ReplaceBackslash(arg.s), <<"/", "/">>))
            /\ IsUncRoot(res.val[1]) <=> StartsWith(ReplaceBackslash(arg.s), <<"/", "/">>)
            /\ IsDriveRoot(res.val[1]) <=> checkwindriveStr(Components(arg.s)[1]) # <<>>
    /\ (op = "getpath" /\ arg.k = "str" /\ arg.s # <<>> /\ ~AllDots(arg.s)
           /\ res # Ret(<<>>)
           /\ ~StartsWith(ReplaceBackslash(arg.s), <<"/">>)
           /\ checkwindriveStr(Components(arg.s)[1]) = <<>>)
         => res = Ret(getcwd(os) \o <<"/">> \o joinpathStr(splitpathStr(arg.s, os), os))

\* the path s, which ends in '/..', without its last component and the slash before it
BeforeUp(s) == SubSeq(ReplaceBackslash(s), 1, Len(s) - 3)

\* the path ends in a name and no component after its leading slashes is empty
NoEmptyInside(s) ==
    /\ s # <<>> /\ s[Len(s)] # "/"
    /\ \A i \in 1..Len(Components(s)) :
          Components(s)[i] = <<>> => \A j \in 1..i : Components(s)[j] = <<>>

\* the segments without the last one, the root staying when it is the only one
DropLast(segs) == IF Len(segs) > 1 THEN SubSeq(segs, 1, Len(segs) - 1) ELSE segs

\* C22: for every path of three or more components that ends in '..', the rest having
\* no dot segment and no doubled slash, splitpath returns the segments of the rest
\* without the last one; the root segment stays, '//host' too when the host is the only
\* component before '..'
C22_TrailingUp ==
    (/\ op = "splitpath" /\ arg.k = "str"
     /\ Len(Components(arg.s)) >= 3
     /\ Components(arg.s)[Len(Components(arg.s))] = <<".", ".">>
     /\ DotFree(BeforeUp(arg.s)) /\ NoEmptyInside(BeforeUp(arg.s)))
        => res = Ret(DropLast(splitpathStr(BeforeUp(arg.s), os)))

\* C23: for every non-empty path that does not cancel, a trailing or doubled slash
\* included, every segment splitpath returns is a non-empty str and no segment after the
\* first holds a '/'
C23_SegmentsWellFormed ==
    (op = "splitpath" /\ arg.k = "str" /\ arg.s # <<>> /\ res # Ret(<<<<>>>>))
        => /\ res.exc = ""
           /\ \A i \in 1..Len(res.val) : res.val[i] # <<>>
           /\ \A i \in 2..Len(res.val) : \A j \in 1..Len(res.val[i]) : res.val[i][j] # "/"

\* C24: under every working directory splitpath('.') is the segments of the working
\* directory and splitpath('..') those segments without the last one, a root staying as
\* it is; getpath('.') is the working directory with forward slashes, and parent('.'),
\* the default of parent, is the path of the segments without the last one
C24_DotsFollowCwd ==
    /\ (op = "splitpath" /\ arg = PyStr(<<".">>))
         => res = Ret(splitpathStr(getcwd(os), os))
    /\ (op = "splitpath" /\ arg = PyStr(<<".", ".">>))
         => res = Ret(DropLast(splitpathStr(getcwd(os), os)))
    /\ (op = "getpath" /\ arg = PyStr(<<".">>)) => res = Ret(getcwd(os))
    /\ (op = "parent" /\ arg = PyStr(<<".">>))
         => res = Ret(joinpathStr(DropLast(splitpathStr(getcwd(os), os)), os))

(***************************************************************************)
(* Properties of the file functions.  In an action formula the unprimed    *)
(* variables are the process before the call and the primed ones the       *)
(* process after it, with the call's name, arguments and outcome.          *)
(***************************************************************************)
\* the folders at or beneath node with no file anywhere beneath them, node itself only
\* when self is true
EmptyFolders(fs, node, self) ==
    {n \in fs.dirs : /\ IsPrefix(node, n)
                     /\ n # node \/ self
                     /\ \A f \in fs.files : ~IsPrefix(n, f.node)}

\* the call left the file tree and the working directory as they were
Untouched == UNCHANGED <<dirs, files, oscwd>>

\* C15: a cd that returns has made the working directory the path getpath gave before
\* the call, that folder exists, the returned path is what getcwd() reports afterwards,
\* and cd('..') moves to the parent of the working directory, a root staying where it is
C15_CdReachesResolved ==
    [][(op' = "cd" /\ res'.exc = "")
        => /\ res'.val = getpathStr(arg'.items[1].s, PathOs(FsNow))
           /\ OsIsdir(FsNow', res'.val)
           /\ OsNode(FsNow', oscwd') = OsNode(FsNow, res'.val)
           /\ getcwd(PathOs(FsNow')) = res'.val
           /\ arg'.items[1].s = <<".", ".">> => oscwd' = PosixDirname(oscwd)]_vars

\* C16: rmdir raises FileNotFoundError for a missing path and ValueError for a file and
\* changes nothing then; on a folder it never removes a file, removes only folders of the
\* subtree with no file beneath them, the folder itself only when delroot is true, and
\* when it returns it has removed all of them and returns their number; it returns
\* whenever the working directory exists and the root is not to be removed
C16_RmdirEmptyFolders ==
    [][(op' = "rmdir" /\ getpathFs(arg'.items[1].s, FsNow).exc = "")
        => LET path == getpathFs(arg'.items[1].s, FsNow).val
               gone == EmptyFolders(FsNow, OsNode(FsNow, path), arg'.items[2].n = 1)
           IN  /\ ~OsExists(FsNow, path) => res'.exc = "FileNotFoundError" /\ Untouched
               /\ OsIsfile(FsNow, path) => res'.exc = "ValueError" /\ Untouched
               /\ OsIsdir(FsNow, path)
                    => /\ files' = files
                       /\ dirs' \subseteq dirs
                       /\ (dirs \ dirs') \subseteq gone
                       /\ res'.exc = "" => dirs' = dirs \ gone /\ res'.val = Cardinality(gone)
                       /\ (oscwd # <<>> /\ <<>> \notin gone) => res'.exc = ""]_vars

C19_MakefileWrites ==
    [][(op' = "makefile" /\ getpathFs(arg'.items[1].s, FsNow).exc = ""
                         /\ getpathFs(arg'.items[1].s, FsNow).val # <<>>)
        => LET path == getpathFs(arg'.items[1].s, FsNow).val
               node == OsNode(FsNow, path)
               msg == arg'.items[2].s
               overwrite == arg'.items[3].n = 1
           IN  /\ (OsIsfile(FsNow, path) /\ ~overwrite)
                    => res'.exc = "FileExistsError" /\ Untouched
               /\ (OsIsfile(FsNow, path) /\ overwrite)
                    => /\ res'.exc = ""
                       /\ [node |-> node, text |-> msg] \in files'
               /\ (~OsExists(FsNow, path) /\ ~UnderFile(FsNow, node))
                    => /\ res' = Ret(path)
                       /\ [node |-> node, text |-> msg] \in files'
                       /\ ParentIsDir(FsNow', node)]_vars

(***************************************************************************)
(* Properties of the methods of File                                       *)
(***************************************************************************)
\* the node of the folder above a node
Above(node) == SubSeq(node, 1, Len(node) - 1)

\* C18: after a File.move or File.rename that returns, File.path is an absolute path
\* with forward slashes at which the entry exists: in the folder dest under its old name
\* after move, in the same folder under the new name after rename; and nothing is left
\* at the old path when the path has changed.  File.copy and File.delete leave File.path
\* as it was, and so does every call that raises.
C18_FileTracksEntry ==
    [][/\ (op' \in {"File.move", "File.rename"} /\ res'.exc = "")
            => /\ StartsWith(fobj'.s, <<"/">>)
               /\ fobj'.s = forslashStr(fobj'.s)
               /\ OsExists(FsNow', fobj'.s)
               /\ OsNode(FsNow', fobj'.s) # OsNode(FsNow, fobj.s) => ~OsExists(FsNow', fobj.s)
       /\ (op' = "File.move" /\ res'.exc = "")
            => OsNode(FsNow', fobj'.s)
                  = OsNode(FsNow, getpathFs(arg'.items[1].s, FsNow).val)
                      \o <<Basename(fobj.s)>>
       /\ (op' = "File.rename" /\ res'.exc = "" /\ arg'.items[1].s \in Names)
            => OsNode(FsNow', fobj'.s) = Above(OsNode(FsNow, fobj.s)) \o <<arg'.items[1].s>>
       /\ op' \in {"File.copy", "File.delete"} => fobj' = fobj
       /\ (op' # "" /\ res'.exc # "") => fobj' = fobj]_vars

(***************************************************************************)
(* Properties of a call that runs while another thread calls cd            *)
(***************************************************************************)
\* what the finished call returns under the one working directory cwd
UnderOneCwd(fn, path, cwd) ==
    IF fn = "getpath" THEN getpathStr(path, [name |-> "posix", cwd |-> cwd])
    ELSE parentStr(path, [name |-> "posix", cwd |-> cwd])

\* C25: a call of getpath or parent calls os.getcwd() at most once, and what it returns
\* while cd runs in another thread is what it returns under one working directory that
\* was current at some moment of the call
C25_SingleCwdObservation ==
    (frame.pc = "done")
        => /\ frame.reads <= 1
           /\ \E cwd \in frame.seen : res.val = UnderOneCwd(op, arg.s, cwd)

(***************************************************************************)
(* Properties of copy and move                                             *)
(***************************************************************************)
\* the call raised exc and left every file and folder as it was
RaisedUntouched(exc) == res'.exc = exc /\ dirs' = dirs /\ files' = files

\* the entry of the file tree at a node: its kind, and its text when it is a file
EntryAt(D, F, node) ==
    IF node \in D THEN <<"folder">>
    ELSE IF \E f \in F : f.node = node THEN <<"file", (CHOOSE f \in F : f.node = node).text>>
    ELSE <<"absent">>

\* what copy and move owe when the source path, resolved, is path, the destination,
\* resolved, is dest, and the call started in the file tree fs
CopymoveOwes(path, dest, overwrite, fs) ==
    IF path = dest THEN RaisedUntouched("ValueError")
    ELSE IF OsExists(fs, dest) /\ ~OsIsdir(fs, dest) THEN RaisedUntouched("FileExistsError")
    ELSE /\ (~overwrite /\ OsExists(fs, NewPath(path, dest))) => RaisedUntouched("FileExistsError")
         /\ ~overwrite =>
               \A node \in fs.dirs \cup {f.node : f \in fs.files} :
                   (node # OsNode(fs, path) /\ ~IsPrefix(OsNode(fs, path), node))
                       => EntryAt(dirs', files', node) = EntryAt(fs.dirs, fs.files, node)

\* C26: copy and move test, in this order, that the source exists (else
\* FileNotFoundError), that source and destination resolve to different paths (else
\* ValueError) and that the destination is not an existing non-folder (else
\* FileExistsError); with overwrite false they raise FileExistsError when
\* destination/basename exists; in each of these cases no file or folder is created,
\* modified or removed; and with overwrite false no entry that existed outside the
\* source is replaced or changed
C26_ChecksBeforeChange ==
    [][(op' \in {"copy", "move"})
        => LET path == getpathFs(arg'.items[1].s, FsNow)
               dest == getpathFs(arg'.items[2].s, FsNow)
           IN  IF path.exc # "" \/ ~OsExists(FsNow, path.val)
               THEN RaisedUntouched("FileNotFoundError")
               ELSE dest.exc = ""
                      => CopymoveOwes(path.val, dest.val, arg'.items[3].n = 1, FsNow)]_vars

\* C26 witness: copy('/d', '/c') with overwrite false has raised FileExistsError because
\* '/c/d' was there, and the files '/d' and '/c/d' are as they were
C26_Witness ==
    /\ op = "copy"
    /\ arg = PyTuple(<<PyStr(<<"/", "d">>), PyStr(<<"/", "c">>), PyBool(FALSE)>>)
    /\ res.exc = "FileExistsError"
    /\ calls = 1
    /\ [node |-> <<<<"d">>>>, text |-> StartText] \in files
    /\ [node |-> <<<<"c">>, <<"d">>>>, text |-> StartText] \in files

\* the nearest folder of D at or above a node
NearestKept(node, D) ==
    LET k == CHOOSE i \in 0..Len(node) :
                 /\ SubSeq(node, 1, i) \in D
                 /\ \A j \in (i + 1)..Len(node) : SubSeq(node, 1, j) \notin D
    IN  SubSeq(node, 1, k)

\* C27: after rmdir returns, the working directory is an existing folder: the nearest
\* folder at or above the old working directory that was not removed
C27_CwdSurvivesRmdir ==
    [][(op' = "rmdir" /\ res'.exc = "" /\ oscwd # <<>>)
        => /\ oscwd' # <<>>
           /\ OsNode(FsNow', oscwd') \in dirs'
           /\ oscwd' = OsPath(NearestKept(OsNode(FsNow, oscwd), dirs'))]_vars

\* parent applied k times
RECURSIVE ParentTimes(_, _, _)
ParentTimes(path, k, env) ==
    IF k = 0 THEN path ELSE parentStr(ParentTimes(path, k - 1, env), env)

\* the chain of parent from path: n is the number of segments below the root
ParentChain(path, root, n, env) ==
    /\ \A k \in 0..(n - 1) :
          splitpathStr(ParentTimes(path, k + 1, env), env)
              = DropLast(splitpathStr(ParentTimes(path, k, env), env))
    /\ \A k \in n..(n + 2) : ParentTimes(path, k, env) = root
    /\ \A k \in 0..(n - 1) : ParentTimes(path, k, env) # root

\* C28: from a path that getpath returned, with n segments below its root, parent
\* applied n times gives the bare root, each application removing the last segment, no
\* application before the n-th gives the root, and every further one gives the root again
C28_ParentChain ==
    (op = "getpath" /\ res.exc = "" /\ res.val # <<>>
        /\ \A i \in 2..Len(splitpathStr(res.val, os)) : splitpathStr(res.val, os)[i] # <<>>)
        => ParentChain(res.val, splitpathStr(res.val, os)[1],
                       Len(splitpathStr(res.val, os)) - 1, os)

\* C29: makefile on an existing folder other than the root raises IsADirectoryError and
\* leaves every folder and file as it was, for either value of overwrite
C29_MakefileKeepsFolders ==
    [][(op' = "makefile" /\ getpathFs(arg'.items[1].s, FsNow).exc = ""
                         /\ OsIsdir(FsNow, getpathFs(arg'.items[1].s, FsNow).val)
                         /\ OsNode(FsNow, getpathFs(arg'.items[1].s, FsNow).val) # <<>>)
        => /\ res'.exc = "IsADirectoryError"
           /\ dirs' = dirs
           /\ files' = files]_vars

(***************************************************************************)
(* Properties of jsp                                                       *)
(***************************************************************************)
\* the value that follows the last flag at an odd place of the command line
LastValue(argv, flag) ==
    argv[(CHOOSE i \in 1..Len(argv) :
              /\ i % 2 = 1 /\ argv[i] = flag
              /\ \A j \in (i + 1)..Len(argv) : ~(j % 2 = 1 /\ argv[j] = flag)) + 1]

\* the flag is on the command line and its last value is the word False
SaysFalse(argv, flag) ==
    /\ \E i \in 1..Len(argv) : i % 2 = 1 /\ argv[i] = flag
    /\ LastValue(argv, flag) = <<"F", "a", "l", "s", "e">>

\* every value of the flag on the command line is the word True or the word False
SaysBooleans(argv, flag) ==
    \A i \in 1..Len(argv) :
        (i % 2 = 1 /\ argv[i] = flag /\ i < Len(argv))
            => argv[i + 1] \in {<<"T", "r", "u", "e">>, <<"F", "a", "l", "s", "e">>}

\* C30: when jsp calls pretty it has gone round the loop once for every two words of
\* the command line, and, the values of -s and -o being True or False, pretty sorts the
\* keys unless the value of -s is False and skips a file whose '_pretty.json' file exists
\* exactly when the value of -o is False
C30_FlagValuesAreBooleans ==
    (frame.pc = "called")
        => /\ frame.steps * 2 = Len(frame.argv)
           /\ SaysBooleans(frame.argv, Flag("s"))
                => (frame.sorts <=> ~SaysFalse(frame.argv, Flag("s")))
           /\ SaysBooleans(frame.argv, Flag("o"))
                => (frame.skips <=> SaysFalse(frame.argv, Flag("o")))

====
